---- MODULE Spec2Model ----
(***************************************************************************)
(* Model of the vineyard bulk store (src/server/memory/memory.cc):         *)
(* the payload registry (objects_, externals_), the arena manager          *)
(* (arenas_, Arena::spans), the page reclaimer and the footprint           *)
(* accounting of the block allocator.                                      *)
(*                                                                         *)
(* Addresses, sizes and ids are scaled down: a machine word has WordBits   *)
(* bits, a page has PageSize bytes, the allocator aligns to kBlockSize.    *)
(***************************************************************************)
EXTENDS Integers, Sequences, FiniteSets, TLC

\* ---------------------------------------------------------------- bounds
MaxDataSize == 2
MaxArenas == 1
MaxBlobsPerArena == 2
MaxArenaPages == 2
MaxBatch == 2
MaxWidePages == 3
MaxWideBlobs == 3
MaxIntervals == 2
ExampleSize == 100

\* ------------------------------------------------------- program constants
WordBits == 8
Word == 2 ^ WordBits
UintptrMax == Word - 1
PageSize == 4
kBlockSize == 2
PoolBase == 8
PoolFd == 3
FirstArenaFd == 4
ArenaRegion == 24
ArenaStride == 16

PoolSizes == {4}
ExternalIDs == {"", "x"}
DefaultExternalID == ""
ExternalSizes == {1}
DataSizes == 0..MaxDataSize
ArenaSizes == {PageSize * MaxArenaPages}
ArenaOffsets == {0, 1, 5}
ArenaBlobSizes == {2, 4}
Fds == FirstArenaFd..(FirstArenaFd + MaxArenas)

\* ------------------------------------------------------------ pure helpers
Max(a, b) == IF a < b THEN b ELSE a
Min(a, b) == IF a < b THEN a ELSE b

SetMin(S) == CHOOSE x \in S : \A y \in S : x <= y
SetMax(S) == CHOOSE x \in S : \A y \in S : y <= x

RECURSIVE SumOver(_, _)
SumOver(S, f) == IF S = {} THEN 0
                 ELSE LET x == CHOOSE y \in S : TRUE
                      IN f[x] + SumOver(S \ {x}, f)

align_up(address, alignment) == ((address + alignment - 1) \div alignment) * alignment
align_down(address, alignment) == (address \div alignment) * alignment

\* ids are the pointer with the top bit of the word set
BlobFlag == 2 ^ (WordBits - 1)
GenerateBlobID(ptr) == IF ptr >= BlobFlag THEN ptr ELSE ptr + BlobFlag
EmptyBlobID == BlobFlag
WholeRegionID == GenerateBlobID(UintptrMax)

MakeEmpty ==
    [object_id |-> EmptyBlobID, external_id |-> DefaultExternalID, store_fd |-> -1,
     arena_fd |-> -1, data_offset |-> 0, data_size |-> 0, external_size |-> 0,
     map_size |-> 0, pointer |-> 0]

\* Payload::arena_fd: -1 for a block of the pool, the arena's descriptor for a
\* sub-region of an arena
PoolArenaFd == -1
ArenaFdOf(fd) == fd

\* Payload built for a block of the pool (Create, PreAllocate)
PoolPayload(object_id, external_id, data_size, pointer, fd, map_size, offset, external_size) ==
    [object_id |-> object_id, external_id |-> external_id, store_fd |-> fd,
     arena_fd |-> PoolArenaFd, data_offset |-> offset, data_size |-> data_size,
     external_size |-> external_size, map_size |-> map_size, pointer |-> pointer]

\* Payload built for a sub-region of a finalized arena
ArenaPayload(object_id, data_size, pointer, fd, map_size, offset) ==
    [object_id |-> object_id, external_id |-> DefaultExternalID, store_fd |-> fd,
     arena_fd |-> ArenaFdOf(fd), data_offset |-> offset, data_size |-> data_size,
     external_size |-> 0, map_size |-> map_size, pointer |-> pointer]

\* ------------------------------------------------------------------ state
VARIABLES
    objects_,          \* main map: ObjectID -> Payload
    externals_,        \* secondary map: ExternalID -> Payload
    arenas_,           \* open table: fd -> Arena
    spans,             \* Arena::spans, the ordered set of arena blob ids
    allocated_,        \* BulkAllocator::Allocated()
    footprint_limit_,  \* BulkAllocator::GetFootprintLimit()
    heap,              \* blocks the allocator has handed out: pointer -> size
    pool,              \* [ready, size] of the reserved region
    next_fd,           \* next descriptor create_buffer returns
    madvised,          \* madvise calls issued by the last operation
    mmap_records,      \* memory::mmap_records: base -> [fd, size]
    lastOp,            \* the last call and what it returned
    hung,              \* the calling thread spins on an entry lock for ever
    made,              \* history: fds returned by MakeArena
    finalizeOk,        \* history: number of successful FinalizeArena per fd
    threads,           \* worker threads: position in a call, locals, last return
    freeCalls          \* history: BulkAllocator::Free calls per pointer since Memalign

vars == <<objects_, externals_, arenas_, spans, allocated_, footprint_limit_, heap,
          pool, next_fd, madvised, mmap_records, lastOp, hung, made, finalizeOk, threads,
          freeCalls>>

Exists(object_id) == object_id \in DOMAIN objects_
ExistsExternal(external_id) == external_id \in DOMAIN externals_
Footprint == allocated_ % Word
FootprintLimit == footprint_limit_

\* emplace of a concurrent_hash_map / std::map: no effect when the key is there
Emplace_Overwrite(map, key, value) ==
    [k \in DOMAIN map \cup {key} |-> IF k = key THEN value ELSE map[k]]
Emplace(map, key, value) ==
    IF key \in DOMAIN map THEN map
    ELSE [k \in DOMAIN map \cup {key} |-> IF k = key THEN value ELSE map[k]]

Erase(map, key) == [k \in DOMAIN map \ {key} |-> map[k]]

EmptyMap == [k \in {} |-> 0]

Threads == {1, 2}
IdleThread == [pc |-> "idle", ret |-> [op |-> "none", status |-> "OK"]]

Init ==
    /\ objects_ = EmptyMap
    /\ externals_ = EmptyMap
    /\ arenas_ = EmptyMap
    /\ spans = {}
    /\ allocated_ = 0
    /\ footprint_limit_ = 0
    /\ heap = EmptyMap
    /\ pool = [ready |-> FALSE, size |-> 0]
    /\ next_fd = FirstArenaFd
    /\ madvised = {}
    /\ mmap_records = EmptyMap
    /\ lastOp = [op |-> "none", status |-> "OK"]
    /\ hung = FALSE
    /\ made = {}
    /\ finalizeOk = [fd \in Fds |-> 0]
    /\ threads = [t \in Threads |-> IdleThread]
    /\ freeCalls = EmptyMap

\* ------------------------------------------------------- block allocator
\* aligned addresses of the pool where a block of `size` bytes fits
FreeAddrs(size) ==
    {p \in PoolBase..(PoolBase + pool.size - 1) :
        /\ p % kBlockSize = 0
        /\ p + size <= PoolBase + pool.size
        /\ \A q \in DOMAIN heap : p + size <= q \/ q + heap[q] <= p}

\* BulkAllocator::Memalign: the pointers it may return, 0 standing for nullptr
Memalign_Unchecked(size) ==
    IF ~pool.ready THEN {0}
    ELSE {p \in PoolBase..(PoolBase + pool.size - 1) : p \notin DOMAIN heap}
Memalign(size) ==
    IF allocated_ + size > footprint_limit_ \/ ~pool.ready \/ FreeAddrs(size) = {}
    THEN {0}
    ELSE FreeAddrs(size)

\* BulkAllocator::Free: the heap and the live byte count after the call
FreeHeap(pointer) == Erase(heap, pointer)
FreeAllocated(bytes) == allocated_ - bytes

\* GetMallocMapinfo: descriptor, mapping size and offset of a pool pointer
GetMallocMapinfo(pointer) ==
    [fd |-> PoolFd, map_size |-> pool.size, offset |-> pointer - PoolBase]

\* --------------------------------------------------------- page reclaimer
system_page_size == PageSize

\* recycle_resident_memory(aligned_left, aligned_right): the madvise calls
recycle_resident_memory(aligned_left, aligned_right) ==
    IF aligned_left # aligned_right
    THEN {[addr |-> aligned_left, length |-> (aligned_right - aligned_left) % Word]}
    ELSE {}

\* recycle_resident_memory(base, left, right)
recycle_resident_range(base, left, right) ==
    recycle_resident_memory(align_up(base + left, system_page_size),
                            align_down(base + right, system_page_size))

Indices(seq) == 1..Len(seq)

\* the std::map `points` of recycle_arena: its keys and its markers
PointKeys(size, offsets, sizes) ==
    {0, size} \cup {offsets[i] : i \in Indices(offsets)}
              \cup {offsets[i] + sizes[i] : i \in Indices(offsets)}

PointMarker_NoEnd(k, offsets, sizes) ==
    Cardinality({i \in Indices(offsets) : offsets[i] = k})
PointMarker(k, offsets, sizes) ==
    Cardinality({i \in Indices(offsets) : offsets[i] = k})
      - Cardinality({i \in Indices(offsets) : offsets[i] + sizes[i] = k})

RECURSIVE SortedSeq(_)
SortedSeq(S) == IF S = {} THEN <<>> ELSE <<SetMin(S)>> \o SortedSeq(S \ {SetMin(S)})

\* recycle_arena: the test for an interval nothing covers (memory.cc:119)
Untouched_Always(markersum) == TRUE
Untouched(markersum) == markersum = 0

\* the loop of recycle_arena: head walks the points in increasing order
RECURSIVE ArenaWalk(_, _, _, _, _)
ArenaWalk(keys, head, markersum_before, offsets, sizes) ==
    LET markersum == markersum_before + PointMarker(keys[head], offsets, sizes)
    IN IF head = Len(keys) THEN {}
       ELSE (IF Untouched(markersum) THEN {<<keys[head], keys[head + 1]>>} ELSE {})
            \cup ArenaWalk(keys, head + 1, markersum, offsets, sizes)

\* the (left, right) offset pairs recycle_arena hands to the range reclaimer
ArenaGaps(size, offsets, sizes) ==
    ArenaWalk(SortedSeq(PointKeys(size, offsets, sizes)), 1, 0, offsets, sizes)

\* recycle_arena: the madvise calls it ends up issuing
recycle_arena(base, size, offsets, sizes) ==
    UNION {recycle_resident_range(base, g[1], g[2]) : g \in ArenaGaps(size, offsets, sizes)}

\* ------------------------------------------------- single-threaded store
\* Delete: the test for the two reserved ids (memory.cc:261-265)
Sentinel_EmptyOnly(object_id) == object_id = EmptyBlobID
Sentinel(object_id) == object_id = EmptyBlobID \/ object_id = WholeRegionID

\* BulkStore::PreAllocate, the reservation succeeding
PreAllocate(size) ==
    /\ ~hung /\ ~pool.ready /\ footprint_limit_ = 0
    /\ UNCHANGED <<threads, freeCalls>>
    /\ footprint_limit_' = size
    /\ pool' = [ready |-> TRUE, size |-> size]
    /\ LET info == [fd |-> PoolFd, map_size |-> size, offset |-> 0]
       IN objects_' = Emplace(objects_, WholeRegionID,
                         PoolPayload(WholeRegionID, DefaultExternalID, size, PoolBase,
                                     info.fd, info.map_size, info.offset, 0))
    /\ madvised' = {}
    /\ lastOp' = [op |-> "PreAllocate", status |-> "OK", size |-> size]
    /\ UNCHANGED <<externals_, arenas_, spans, allocated_, heap, next_fd, mmap_records, hung, made,
                   finalizeOk>>

\* BulkStore::PreAllocate, BulkAllocator::Init returning nullptr
PreAllocateFail(size) ==
    /\ ~hung /\ ~pool.ready /\ footprint_limit_ = 0
    /\ UNCHANGED <<threads, freeCalls>>
    /\ footprint_limit_' = size
    /\ madvised' = {}
    /\ lastOp' = [op |-> "PreAllocate", status |-> "NotEnoughMemory", size |-> size]
    /\ UNCHANGED <<objects_, externals_, arenas_, spans, allocated_, heap, pool, next_fd,
                   mmap_records, hung, made, finalizeOk>>

\* Create: the test for an empty blob (memory.cc:185)
IsEmptyRequest_Never(data_size) == FALSE
IsEmptyRequest(data_size) == data_size = 0

\* Create: the test of the pointer AllocateMemory returned (memory.cc:195)
AllocationFailed_Ignored(pointer) == FALSE
AllocationFailed(pointer) == pointer = 0

\* BulkStore::Create(data_size, external_id, external_size, object_id, object)
Create(data_size, external_id, external_size) ==
    /\ ~hung /\ UNCHANGED <<threads, freeCalls>>
    /\ madvised' = {}
    /\ IF IsEmptyRequest(data_size)
       THEN /\ lastOp' = [op |-> "Create", status |-> "OK", size |-> data_size,
                          eid |-> external_id, id |-> EmptyBlobID, object |-> MakeEmpty]
            /\ UNCHANGED <<objects_, externals_, allocated_, heap>>
       ELSE \E pointer \in Memalign(data_size) :
              IF AllocationFailed(pointer)
              THEN /\ lastOp' = [op |-> "Create", status |-> "NotEnoughMemory",
                                 size |-> data_size, eid |-> external_id]
                   /\ UNCHANGED <<objects_, externals_, allocated_, heap>>
              ELSE LET info == GetMallocMapinfo(pointer)
                       object_id == GenerateBlobID(pointer)
                       object == PoolPayload(object_id, external_id, data_size, pointer,
                                             info.fd, info.map_size, info.offset,
                                             external_size)
                   IN /\ allocated_' = allocated_ + data_size
                      /\ heap' = Emplace(heap, pointer, data_size)
                      /\ objects_' = Emplace(objects_, object_id, object)
                      /\ externals_' = Emplace(externals_, external_id, object)
                      /\ lastOp' = [op |-> "Create", status |-> "OK", size |-> data_size,
                                    eid |-> external_id, id |-> object_id,
                                    object |-> object]
    /\ UNCHANGED <<arenas_, spans, footprint_limit_, pool, next_fd, mmap_records, hung, made,
                   finalizeOk>>

\* BulkStore::Create(data_size, object_id, object)
CreateSizeOnly(data_size) == Create(data_size, DefaultExternalID, 0)

\* Get: the test for the empty id (memory.cc:209)
IsEmptyID_Never(id) == FALSE
IsEmptyID(id) == id = EmptyBlobID

\* BulkStore::Get(id, object): the status and the payload handed back
GetObject(id) ==
    IF IsEmptyID(id) THEN [status |-> "OK", object |-> MakeEmpty]
    ELSE IF id \in DOMAIN objects_ THEN [status |-> "OK", object |-> objects_[id]]
    ELSE [status |-> "ObjectNotExists"]

\* batch Get: what the loop does with a key that find misses (memory.cc:230, 242)
PushMissing_Empty == <<MakeEmpty>>
PushMissing == <<>>

\* BulkStore::Get(ids, objects): the loop over ids, objects.push_back in order
RECURSIVE GetObjects(_, _)
GetObjects(ids, idx) ==
    IF idx > Len(ids) THEN <<>>
    ELSE LET object_id == ids[idx]
         IN (IF object_id = EmptyBlobID THEN <<MakeEmpty>>
             ELSE IF object_id \in DOMAIN objects_ THEN <<objects_[object_id]>>
             ELSE PushMissing)
            \o GetObjects(ids, idx + 1)

\* BulkStore::Get(eids, objects): the loop over eids
RECURSIVE GetExternals(_, _)
GetExternals(eids, idx) ==
    IF idx > Len(eids) THEN <<>>
    ELSE (IF eids[idx] \in DOMAIN externals_ THEN <<externals_[eids[idx]]>>
          ELSE PushMissing)
         \o GetExternals(eids, idx + 1)

StoreUnchanged ==
    UNCHANGED <<objects_, externals_, arenas_, spans, allocated_, footprint_limit_, heap, pool,
                next_fd, mmap_records, hung, made, finalizeOk>>

\* the three Get calls as operations of the store
Get(id) ==
    /\ ~hung /\ UNCHANGED <<threads, freeCalls>>
    /\ lastOp' = [op |-> "Get", id |-> id] @@ GetObject(id)
    /\ madvised' = {}
    /\ StoreUnchanged

GetByObjectIDs(ids) ==
    /\ ~hung /\ UNCHANGED <<threads, freeCalls>>
    /\ lastOp' = [op |-> "GetByObjectIDs", status |-> "OK", ids |-> ids,
                  objects |-> GetObjects(ids, 1)]
    /\ madvised' = {}
    /\ StoreUnchanged

GetByExternalIDs(eids) ==
    /\ ~hung /\ UNCHANGED <<threads, freeCalls>>
    /\ lastOp' = [op |-> "GetByExternalIDs", status |-> "OK", eids |-> eids,
                  objects |-> GetExternals(eids, 1)]
    /\ madvised' = {}
    /\ StoreUnchanged

\* Delete, arena branch: the neighbours in spans and the window to reclaim
SpanPrev(object_id) == {s \in spans : s < object_id}
SpanNext(object_id) == {s \in spans : s > object_id}

\* Delete: the bound the previous blob of spans puts on the window (memory.cc:294-297)
LowerBound_RoundedDown(object_prev) ==
    align_down(object_prev.pointer + object_prev.data_size, system_page_size)
LowerBound(object_prev) ==
    align_up(object_prev.pointer + object_prev.data_size, system_page_size)

ArenaWindow(object_id, object) ==
    LET pointer == object.pointer
        lower == align_down(pointer, system_page_size)
        upper == align_up(pointer, system_page_size)
        prevs == SpanPrev(object_id)
        nexts == SpanNext(object_id)
        prev_missing == prevs # {} /\ SetMax(prevs) \notin DOMAIN objects_
        next_missing == nexts # {} /\ SetMin(nexts) \notin DOMAIN objects_
        lower_bound == IF prevs = {} THEN lower ELSE LowerBound(objects_[SetMax(prevs)])
        upper_bound == IF nexts = {} THEN upper
                       ELSE align_down(objects_[SetMin(nexts)].pointer, system_page_size)
    IN IF prev_missing \/ next_missing
       THEN [status |-> "Invalid", calls |-> {}]
       ELSE [status |-> "OK",
             calls |-> IF Max(lower, lower_bound) < Min(upper, upper_bound)
                       THEN recycle_resident_memory(Max(lower, lower_bound),
                                                    Min(upper, upper_bound))
                       ELSE {}]

\* Delete: the test that sends a blob to BulkAllocator::Free (memory.cc:273)
FromPool_Always(object) == TRUE
FromPool(object) == object.arena_fd = -1

\* Delete: the size handed to BulkAllocator::Free (memory.cc:274)
BuffSize_External(object) == object.external_size
BuffSize(object) == object.data_size

\* Delete: the status for an id the main map does not hold (memory.cc:267-270)
DeleteMiss_Success == "OK"
DeleteMiss == "ObjectNotExists"

\* Delete: objects_.erase(accessor) (memory.cc:322)
EraseObject_Skipped(object_id) == objects_
EraseObject(object_id) == Erase(objects_, object_id)

\* Delete: the external map once the entry of the blob's external id is erased
EraseExternal(external_id) ==
    IF external_id \in DOMAIN externals_ THEN Erase(externals_, external_id) ELSE externals_

\* BulkStore::Delete(const ObjectID&), called directly or by Delete(ExternalID)
DeleteObject(object_id, caller) ==
    /\ ~hung /\ UNCHANGED <<threads, freeCalls>>
    /\ IF Sentinel(object_id)
       THEN /\ lastOp' = [op |-> caller, status |-> "OK", id |-> object_id]
            /\ madvised' = {}
            /\ UNCHANGED <<objects_, externals_, allocated_, heap>>
       ELSE IF object_id \notin DOMAIN objects_
       THEN /\ lastOp' = [op |-> caller, status |-> DeleteMiss, id |-> object_id]
            /\ madvised' = {}
            /\ UNCHANGED <<objects_, externals_, allocated_, heap>>
       ELSE LET object == objects_[object_id]
                external_id == object.external_id
            IN IF FromPool(object)
               THEN /\ allocated_' = FreeAllocated(BuffSize(object))
                    /\ heap' = FreeHeap(object.pointer)
                    /\ madvised' = {}
                    /\ externals_' = EraseExternal(external_id)
                    /\ objects_' = EraseObject(object_id)
                    /\ lastOp' = [op |-> caller, status |-> "OK", id |-> object_id]
               ELSE LET window == ArenaWindow(object_id, object)
                    IN IF window.status # "OK"
                       THEN /\ lastOp' = [op |-> caller, status |-> window.status,
                                          id |-> object_id]
                            /\ madvised' = {}
                            /\ UNCHANGED <<objects_, externals_, allocated_, heap>>
                       ELSE /\ madvised' = window.calls
                            /\ externals_' = EraseExternal(external_id)
                            /\ objects_' = EraseObject(object_id)
                            /\ lastOp' = [op |-> caller, status |-> "OK",
                                          id |-> object_id]
                            /\ UNCHANGED <<allocated_, heap>>
    /\ UNCHANGED <<arenas_, spans, footprint_limit_, pool, next_fd, mmap_records, hung, made,
                   finalizeOk>>

Delete(object_id) == DeleteObject(object_id, "Delete")

\* Delete(ExternalID) keeps its const_accessor (a reader lock) on the entry of
\* external_id while Delete(ObjectID) runs.  When the inner call reaches
\* externals_.erase on that same entry, erase unlinks the node and then waits
\* for the other readers of the entry to leave: the caller waits for itself.
DeleteExternalHangs(external_id) ==
    /\ external_id \in DOMAIN externals_
    /\ LET object_id == externals_[external_id].object_id
       IN /\ ~Sentinel(object_id)
          /\ object_id \in DOMAIN objects_
          /\ objects_[object_id].external_id = external_id
          /\ objects_[object_id].arena_fd # -1
               => ArenaWindow(object_id, objects_[object_id]).status = "OK"

\* Delete(ExternalID): the status when externals_.find misses (memory.cc:256)
DeleteExternalMiss_Error == "ObjectNotExists"
DeleteExternalMiss == "OK"

\* BulkStore::Delete(const ExternalID&)
DeleteExternal(external_id) ==
    /\ ~hung /\ UNCHANGED <<threads, freeCalls>>
    /\ IF external_id \notin DOMAIN externals_
       THEN /\ lastOp' = [op |-> "DeleteExternal", status |-> DeleteExternalMiss,
                          eid |-> external_id]
            /\ madvised' = {}
            /\ UNCHANGED <<objects_, externals_, arenas_, spans, allocated_, footprint_limit_,
                           heap, pool, next_fd, mmap_records, hung, made, finalizeOk>>
       ELSE IF DeleteExternalHangs(external_id)
       THEN LET object == objects_[externals_[external_id].object_id]
            IN /\ IF FromPool(object)
                  THEN /\ allocated_' = FreeAllocated(BuffSize(object))
                       /\ heap' = FreeHeap(object.pointer)
                       /\ madvised' = {}
                  ELSE /\ madvised' = ArenaWindow(object.object_id, object).calls
                       /\ UNCHANGED <<allocated_, heap>>
               /\ externals_' = EraseExternal(external_id)
               /\ hung' = TRUE
               /\ lastOp' = [op |-> "DeleteExternal", status |-> "Hung", eid |-> external_id]
               /\ UNCHANGED <<objects_, arenas_, spans, footprint_limit_, pool, next_fd,
                              mmap_records, made, finalizeOk>>
       ELSE DeleteObject(externals_[external_id].object_id, "DeleteExternal")

\* ------------------------------------------------------------ arena manager
ArenaBase(fd) == ArenaRegion + (fd - FirstArenaFd) * ArenaStride

\* BulkStore::MakeArena, create_buffer returning a descriptor
MakeArena(size) ==
    /\ ~hung /\ UNCHANGED <<threads, freeCalls>>
    /\ next_fd < FirstArenaFd + MaxArenas
    /\ LET fd == next_fd
           base == ArenaBase(fd)
       IN /\ arenas_' = Emplace(arenas_, fd, [fd |-> fd, size |-> size, base |-> base])
          /\ made' = made \cup {fd}
          /\ lastOp' = [op |-> "MakeArena", status |-> "OK", fd |-> fd, base |-> base,
                        size |-> size]
    /\ next_fd' = next_fd + 1
    /\ madvised' = {}
    /\ UNCHANGED <<objects_, externals_, spans, allocated_, footprint_limit_, heap, pool,
                   mmap_records, hung, finalizeOk>>

\* BulkStore::MakeArena, create_buffer returning -1
MakeArenaFail(size) ==
    /\ ~hung /\ UNCHANGED <<threads, freeCalls>>
    /\ lastOp' = [op |-> "MakeArena", status |-> "NotEnoughMemory", fd |-> -1, size |-> size]
    /\ madvised' = {}
    /\ UNCHANGED <<objects_, externals_, arenas_, spans, allocated_, footprint_limit_, heap,
                   pool, next_fd, mmap_records, hung, made, finalizeOk>>

\* FinalizeArena: the id of the blob at `pointer`, `offset` into the arena
\* (memory.cc:375)
FinalizedID_FromOffset(pointer, offset) == GenerateBlobID(offset)
FinalizedID(pointer, offset) == GenerateBlobID(pointer)

\* the loop of FinalizeArena over idx: the main map after blobs idx..n are emplaced
RECURSIVE RegisterBlobs(_, _, _, _, _)
RegisterBlobs(map, arena, offsets, sizes, idx) ==
    IF idx > Len(offsets) THEN map
    ELSE LET pointer == arena.base + offsets[idx]
             object_id == FinalizedID(pointer, offsets[idx])
         IN RegisterBlobs(Emplace(map, object_id,
                                  ArenaPayload(object_id, sizes[idx], pointer, arena.fd,
                                               arena.size, offsets[idx])),
                          arena, offsets, sizes, idx + 1)

\* FinalizeArena: the ids Arena::spans.emplace records (memory.cc:382)
SpanIds_Forgotten(arena, offsets) == {}
SpanIds(arena, offsets) == {GenerateBlobID(arena.base + offsets[i]) : i \in Indices(offsets)}

\* FinalizeArena: arenas_.erase(arena) (memory.cc:392)
EraseArena_Kept(fd) == arenas_
EraseArena(fd) == Erase(arenas_, fd)

\* FinalizeArena: the test of the two list lengths (memory.cc:364)
LengthsDiffer_OffsetsLonger(offsets, sizes) == Len(offsets) > Len(sizes)
LengthsDiffer(offsets, sizes) == Len(offsets) # Len(sizes)

\* BulkStore::FinalizeArena
FinalizeArena(fd, offsets, sizes) ==
    /\ ~hung /\ UNCHANGED <<threads, freeCalls>>
    /\ IF fd \notin DOMAIN arenas_
       THEN /\ lastOp' = [op |-> "FinalizeArena", status |-> "ObjectNotExists", fd |-> fd,
                          noffsets |-> Len(offsets), nsizes |-> Len(sizes)]
            /\ madvised' = {}
            /\ UNCHANGED <<objects_, arenas_, spans, mmap_records, finalizeOk>>
       ELSE IF LengthsDiffer(offsets, sizes)
       THEN /\ lastOp' = [op |-> "FinalizeArena", status |-> "UserInputError", fd |-> fd,
                          noffsets |-> Len(offsets), nsizes |-> Len(sizes)]
            /\ madvised' = {}
            /\ UNCHANGED <<objects_, arenas_, spans, mmap_records, finalizeOk>>
       ELSE LET arena == arenas_[fd]
            IN /\ objects_' = RegisterBlobs(objects_, arena, offsets, sizes, 1)
               /\ spans' = spans \cup SpanIds(arena, offsets)
               /\ madvised' = recycle_arena(arena.base, arena.size, offsets, sizes)
               /\ mmap_records' = [b \in DOMAIN mmap_records \cup {arena.base} |->
                                     IF b = arena.base THEN [fd |-> fd, size |-> arena.size]
                                     ELSE mmap_records[b]]
               /\ arenas_' = EraseArena(fd)
               /\ finalizeOk' = [finalizeOk EXCEPT ![fd] = Min(2, @ + 1)]
               /\ lastOp' = [op |-> "FinalizeArena", status |-> "OK", fd |-> fd,
                             noffsets |-> Len(offsets), nsizes |-> Len(sizes),
                             offsets |-> offsets, sizes |-> sizes, arena |-> arena,
                             before |-> DOMAIN objects_]
    /\ UNCHANGED <<externals_, allocated_, footprint_limit_, heap, pool, next_fd, hung, made>>

\* ------------------------------------------------------------------ inputs
SeqsUpTo(S, n) == UNION {[1..k -> S] : k \in 0..n}

\* (offset, size) pairs lying inside an arena of `size` bytes
BlobPairs(size) == {pr \in ArenaOffsets \X ArenaBlobSizes : pr[1] + pr[2] <= size}

OffsetsOf(blobs) == [i \in 1..Len(blobs) |-> blobs[i][1]]
SizesOf(blobs) == [i \in 1..Len(blobs) |-> blobs[i][2]]
DropLast(seq) == SubSeq(seq, 1, Len(seq) - 1)

\* requests of FinalizeArena for fd: equal-length lists inside the arena, and
\* lists whose lengths differ by one
FinalizeRequests(fd) ==
    LET pairs == IF fd \in DOMAIN arenas_ THEN BlobPairs(arenas_[fd].size) ELSE {<<0, 2>>}
        blobs == SeqsUpTo(pairs, MaxBlobsPerArena)
    IN {<<OffsetsOf(b), SizesOf(b)>> : b \in blobs}
         \cup {<<OffsetsOf(b), DropLast(SizesOf(b))>> : b \in blobs \ {<<>>}}
         \cup {<<DropLast(OffsetsOf(b)), SizesOf(b)>> : b \in blobs \ {<<>>}}

\* ids a caller may pass: the two reserved ids, every id the store has handed out
\* and is still tracking, and the ids of the block-aligned pool addresses
ObjectIDs == {EmptyBlobID, WholeRegionID} \cup DOMAIN objects_ \cup spans
               \cup {GenerateBlobID(p) : p \in {q \in PoolBase..(PoolBase + SetMax(PoolSizes) - 1) :
                                                  q % kBlockSize = 0}}

Next ==
    \/ \E size \in PoolSizes : PreAllocate(size)
    \/ \E size \in PoolSizes : PreAllocateFail(size)
    \/ \E data_size \in DataSizes, external_id \in ExternalIDs, external_size \in ExternalSizes :
          Create(data_size, external_id, external_size)
    \/ \E data_size \in DataSizes : CreateSizeOnly(data_size)
    \/ \E object_id \in ObjectIDs : Delete(object_id)
    \/ \E external_id \in ExternalIDs : DeleteExternal(external_id)
    \/ \E size \in ArenaSizes : MakeArena(size)
    \/ \E size \in ArenaSizes : MakeArenaFail(size)
    \/ \E fd \in Fds : \E req \in FinalizeRequests(fd) : FinalizeArena(fd, req[1], req[2])

Spec == Init /\ [][Next]_vars

\* the store with its read-only calls
BatchIDs == {EmptyBlobID, GenerateBlobID(PoolBase), GenerateBlobID(PoolBase + kBlockSize)}

NextGet ==
    \/ Next
    \/ \E id \in ObjectIDs : Get(id)
    \/ \E ids \in SeqsUpTo(BatchIDs, MaxBatch) : GetByObjectIDs(ids)
    \/ \E eids \in SeqsUpTo(ExternalIDs, MaxBatch) : GetByExternalIDs(eids)

SpecGet == Init /\ [][NextGet]_vars

\* the arena manager on its own, with arenas of MaxWidePages pages split into
\* up to MaxWideBlobs blobs
WideArenaSizes == {PageSize * MaxWidePages}
WideOffsets == {0, 2, 5, 7, 8}
WidePairs(size) == {pr \in WideOffsets \X ArenaBlobSizes : pr[1] + pr[2] <= size}

\* the requests FinalizeArena(fd, [0, 100], [50, 50]) and
\* FinalizeArena(fd, [0, 50], [50, 50]) for an arena of 100 bytes
ExampleRequests == {<<<<0, 100>>, <<50, 50>>>>, <<<<0, 50>>, <<50, 50>>>>}

WideRequests(fd) ==
    IF fd \in DOMAIN arenas_ /\ arenas_[fd].size = ExampleSize THEN ExampleRequests ELSE
    LET pairs == IF fd \in DOMAIN arenas_ THEN WidePairs(arenas_[fd].size) ELSE {<<0, 2>>}
        blobs == SeqsUpTo(pairs, MaxWideBlobs)
        short == SeqsUpTo(pairs, 1) \ {<<>>}
    IN {<<OffsetsOf(b), SizesOf(b)>> : b \in blobs}
         \cup {<<OffsetsOf(b), DropLast(SizesOf(b))>> : b \in short}
         \cup {<<DropLast(OffsetsOf(b)), SizesOf(b)>> : b \in short}

NextArena ==
    \/ \E size \in WideArenaSizes \cup {ExampleSize} : MakeArena(size)
    \/ \E size \in WideArenaSizes \cup {ExampleSize} : MakeArenaFail(size)
    \/ \E fd \in Fds : \E req \in WideRequests(fd) : FinalizeArena(fd, req[1], req[2])
    \/ \E object_id \in ObjectIDs : Delete(object_id)

SpecArena == Init /\ [][NextArena]_vars

\* recycle_arena on its own: the arguments are drawn at the start, one step
\* runs the function and records the gaps it handed to the range reclaimer
\* and the madvise calls that came out
RecycleSizes == {PageSize * MaxArenaPages}
Intervals(size) == {pr \in (0..(size - 1)) \X (0..size) : pr[1] + pr[2] <= size}

\* the call recycle_arena(base, 100, offsets [10, 15], sizes [20, 10])
ExampleIntervals == <<<<10, 20>>, <<15, 10>>>>

InitRecycle ==
    /\ objects_ = EmptyMap /\ externals_ = EmptyMap /\ arenas_ = EmptyMap
    /\ spans = {} /\ allocated_ = 0 /\ footprint_limit_ = 0 /\ heap = EmptyMap
    /\ pool = [ready |-> FALSE, size |-> 0]
    /\ next_fd = FirstArenaFd /\ madvised = {} /\ mmap_records = EmptyMap
    /\ hung = FALSE /\ made = {} /\ finalizeOk = [fd \in Fds |-> 0]
    /\ threads = [t \in Threads |-> IdleThread] /\ freeCalls = EmptyMap
    /\ \E size \in RecycleSizes \cup {ExampleSize} :
         \E blobs \in IF size = ExampleSize THEN {ExampleIntervals}
                      ELSE SeqsUpTo(Intervals(size), MaxIntervals) :
            lastOp = [op |-> "call recycle_arena", status |-> "OK",
                      base |-> ArenaBase(FirstArenaFd), size |-> size,
                      offsets |-> OffsetsOf(blobs), sizes |-> SizesOf(blobs)]

RecycleArena ==
    /\ lastOp.op = "call recycle_arena"
    /\ lastOp' = [lastOp EXCEPT !.op = "recycle_arena"]
                   @@ [gaps |-> ArenaGaps(lastOp.size, lastOp.offsets, lastOp.sizes)]
    /\ madvised' = recycle_arena(lastOp.base, lastOp.size, lastOp.offsets, lastOp.sizes)
    /\ StoreUnchanged /\ UNCHANGED <<threads, freeCalls>>

NextRecycle == RecycleArena

SpecRecycle == InitRecycle /\ [][NextRecycle]_vars

\* ----------------------------------------------------------- worker threads
\* Each call of a worker thread is a sequence of steps, one per access to the
\* shared maps or to the allocator.  A const_accessor is a reader lock on the
\* entry it points at: several threads may hold one on the same entry, and
\* erase(accessor) unlinks the entry, then waits for the other readers of the
\* entry to release it.
Holding == {"d_branch", "d_external", "d_erase", "d_upgrade"}
Holds(t, object_id) == threads[t].pc \in Holding /\ threads[t].id = object_id

Return(t, op, object_id, status) ==
    [threads EXCEPT ![t] = [pc |-> "idle",
                            ret |-> [op |-> op, status |-> status]]]

SeqVarsUnchanged == UNCHANGED <<arenas_, spans, footprint_limit_, pool, next_fd, mmap_records,
                                lastOp, hung, made, finalizeOk>>

\* Freeing a block twice, or with a size other than the one it was allocated
\* with, is undefined behaviour of the allocator: its byte count no longer
\* matches the blocks it has handed out, and the model follows the store no
\* further once that has happened.
DoubleFree == \E p \in DOMAIN freeCalls : freeCalls[p] > 1
AllocatorBroken == DoubleFree \/ allocated_ # SumOver(DOMAIN heap, heap)

\* Create, up to AllocateMemory (memory.cc:185-197)
TCreateAlloc(t, data_size, external_id, external_size) ==
    /\ threads[t].pc = "idle" /\ ~AllocatorBroken
    /\ IF IsEmptyRequest(data_size)
       THEN /\ threads' = Return(t, "Create", EmptyBlobID, "OK")
            /\ UNCHANGED <<allocated_, heap, freeCalls>>
       ELSE \E pointer \in Memalign(data_size) :
              IF AllocationFailed(pointer)
              THEN /\ threads' = Return(t, "Create", EmptyBlobID, "NotEnoughMemory")
                   /\ UNCHANGED <<allocated_, heap, freeCalls>>
              ELSE LET info == GetMallocMapinfo(pointer)
                       object_id == GenerateBlobID(pointer)
                   IN /\ allocated_' = allocated_ + data_size
                      /\ heap' = Emplace(heap, pointer, data_size)
                      /\ freeCalls' = [q \in DOMAIN freeCalls \cup {pointer} |->
                                         IF q = pointer THEN 0 ELSE freeCalls[q]]
                      /\ threads' = [threads EXCEPT ![t] =
                             [pc |-> "c_emplace", id |-> object_id,
                              object |-> PoolPayload(object_id, external_id, data_size,
                                                     pointer, info.fd, info.map_size,
                                                     info.offset, external_size)]]
    /\ UNCHANGED <<objects_, externals_, madvised>>
    /\ SeqVarsUnchanged

\* Create: objects_.emplace (memory.cc:201)
TCreateEmplace(t) ==
    /\ threads[t].pc = "c_emplace" /\ ~AllocatorBroken
    /\ objects_' = Emplace(objects_, threads[t].id, threads[t].object)
    /\ threads' = [threads EXCEPT ![t].pc = "c_external"]
    /\ UNCHANGED <<externals_, allocated_, heap, freeCalls, madvised>>
    /\ SeqVarsUnchanged

\* Create: externals_.emplace and return (memory.cc:202-205)
TCreateExternal(t) ==
    /\ threads[t].pc = "c_external" /\ ~AllocatorBroken
    /\ externals_' = Emplace(externals_, threads[t].object.external_id, threads[t].object)
    /\ threads' = Return(t, "Create", threads[t].id, "OK")
    /\ UNCHANGED <<objects_, allocated_, heap, freeCalls, madvised>>
    /\ SeqVarsUnchanged

\* Delete: the sentinel test and objects_.find (memory.cc:261-272)
TDeleteFind(t, object_id) ==
    /\ threads[t].pc = "idle" /\ ~AllocatorBroken
    /\ IF Sentinel(object_id)
       THEN threads' = Return(t, "Delete", object_id, "OK")
       ELSE IF object_id \notin DOMAIN objects_
       THEN threads' = Return(t, "Delete", object_id, DeleteMiss)
       ELSE threads' = [threads EXCEPT ![t] =
                [pc |-> "d_branch", id |-> object_id,
                 object |-> objects_[object_id]]]
    /\ UNCHANGED <<objects_, externals_, allocated_, heap, freeCalls, madvised>>
    /\ SeqVarsUnchanged

\* Delete: BulkAllocator::Free, or the window of an arena blob (memory.cc:273-317)
TDeleteBranch(t) ==
    /\ threads[t].pc = "d_branch" /\ ~AllocatorBroken
    /\ LET object == threads[t].object
       IN IF object.arena_fd = -1
          THEN /\ allocated_' = FreeAllocated(BuffSize(object))
               /\ heap' = FreeHeap(object.pointer)
               /\ freeCalls' = [freeCalls EXCEPT ![object.pointer] = Min(2, @ + 1)]
               /\ madvised' = {}
               /\ threads' = [threads EXCEPT ![t].pc = "d_external"]
          ELSE LET window == ArenaWindow(threads[t].id, object)
               IN /\ IF window.status # "OK"
                     THEN /\ threads' = Return(t, "Delete", threads[t].id, window.status)
                          /\ madvised' = {}
                     ELSE /\ threads' = [threads EXCEPT ![t].pc = "d_external"]
                          /\ madvised' = window.calls
                  /\ UNCHANGED <<allocated_, heap, freeCalls>>
    /\ UNCHANGED <<objects_, externals_>>
    /\ SeqVarsUnchanged

\* Delete: externals_.find and externals_.erase (memory.cc:318-321)
TDeleteExternal(t) ==
    /\ threads[t].pc = "d_external" /\ ~AllocatorBroken
    /\ externals_' = EraseExternal(threads[t].object.external_id)
    /\ threads' = [threads EXCEPT ![t].pc = "d_erase"]
    /\ UNCHANGED <<objects_, allocated_, heap, freeCalls, madvised>>
    /\ SeqVarsUnchanged

\* Delete: objects_.erase(accessor) unlinks the entry unless another thread was first
TDeleteErase(t) ==
    /\ threads[t].pc = "d_erase" /\ ~AllocatorBroken
    /\ IF threads[t].id \in DOMAIN objects_ /\ objects_[threads[t].id] = threads[t].object
       THEN /\ objects_' = EraseObject(threads[t].id)
            /\ threads' = [threads EXCEPT ![t].pc = "d_upgrade"]
       ELSE /\ threads' = Return(t, "Delete", threads[t].id, "OK")
            /\ UNCHANGED objects_
    /\ UNCHANGED <<externals_, allocated_, heap, freeCalls, madvised>>
    /\ SeqVarsUnchanged

\* Delete: erase waits until it is the only holder of the entry, then returns
TDeleteReturn(t) ==
    /\ threads[t].pc = "d_upgrade" /\ ~AllocatorBroken
    /\ \A u \in Threads \ {t} : ~Holds(u, threads[t].id)
    /\ threads' = Return(t, "Delete", threads[t].id, "OK")
    /\ UNCHANGED <<objects_, externals_, allocated_, heap, freeCalls, madvised>>
    /\ SeqVarsUnchanged

NextConc ==
    \/ \E size \in PoolSizes : PreAllocate(size)
    \/ \E t \in Threads, data_size \in DataSizes, external_id \in ExternalIDs,
          external_size \in ExternalSizes :
          TCreateAlloc(t, data_size, external_id, external_size)
    \/ \E t \in Threads : TCreateEmplace(t)
    \/ \E t \in Threads : TCreateExternal(t)
    \/ \E t \in Threads, object_id \in ObjectIDs : TDeleteFind(t, object_id)
    \/ \E t \in Threads : TDeleteBranch(t)
    \/ \E t \in Threads : TDeleteExternal(t)
    \/ \E t \in Threads : TDeleteErase(t)
    \/ \E t \in Threads : TDeleteReturn(t)

SpecConc == Init /\ [][NextConc]_vars

\* ------------------------------------------- worker threads on the arenas
\* arenas_ is a std::map and Arena::spans a std::set; memory.cc takes no lock
\* around them.  Each access of a worker thread is an interval: the thread
\* enters it in one step and leaves it in the next.
WritesArenas(t) == threads[t].pc \in {"m_emplace", "f_erase"}
ReadsArenas(t) == threads[t].pc = "f_find"
WritesSpans(t) == threads[t].pc = "f_emplace"
ReadsSpans(t) == threads[t].pc = "a_lookup"

\* two threads inside the same container at once, one of them writing: the
\* behaviour of the container is undefined from there on and the model
\* follows the store no further
Raced ==
    \E t, u \in Threads :
        /\ t # u
        /\ \/ WritesArenas(t) /\ (WritesArenas(u) \/ ReadsArenas(u))
           \/ WritesSpans(t) /\ (WritesSpans(u) \/ ReadsSpans(u))

PoolVarsUnchanged ==
    UNCHANGED <<allocated_, footprint_limit_, heap, pool, lastOp, hung, freeCalls>>

\* MakeArena: create_buffer and mmap done, arenas_.emplace begins (memory.cc:343-349)
TMakeArena(t, size) ==
    /\ threads[t].pc = "idle" /\ ~Raced
    /\ next_fd < FirstArenaFd + MaxArenas
    /\ threads' = [threads EXCEPT ![t] = [pc |-> "m_emplace", fd |-> next_fd, size |-> size]]
    /\ next_fd' = next_fd + 1
    /\ PoolVarsUnchanged
    /\ UNCHANGED <<objects_, externals_, arenas_, spans, madvised, mmap_records, made,
                   finalizeOk>>

\* MakeArena: arenas_.emplace done (memory.cc:349-352)
TMakeArenaDone(t) ==
    /\ threads[t].pc = "m_emplace" /\ ~Raced
    /\ LET fd == threads[t].fd
       IN /\ arenas_' = Emplace(arenas_, fd, [fd |-> fd, size |-> threads[t].size,
                                              base |-> ArenaBase(fd)])
          /\ made' = made \cup {fd}
    /\ threads' = Return(t, "MakeArena", 0, "OK")
    /\ PoolVarsUnchanged
    /\ UNCHANGED <<objects_, externals_, spans, next_fd, madvised, mmap_records, finalizeOk>>

\* FinalizeArena: arenas_.find begins (memory.cc:359)
TFinalizeFind(t, fd, offsets, sizes) ==
    /\ threads[t].pc = "idle" /\ ~Raced
    /\ threads' = [threads EXCEPT ![t] = [pc |-> "f_find", fd |-> fd, offsets |-> offsets,
                                          sizes |-> sizes]]
    /\ PoolVarsUnchanged
    /\ UNCHANGED <<objects_, externals_, arenas_, spans, next_fd, madvised, mmap_records,
                   made, finalizeOk>>

\* FinalizeArena: the two checks, then the loop or, with no blob, straight to
\* recycle_arena and arenas_.erase (memory.cc:360-369, 385-392)
TFinalizeChecked(t) ==
    /\ threads[t].pc = "f_find" /\ ~Raced
    /\ LET my == threads[t]
       IN IF my.fd \notin DOMAIN arenas_
          THEN threads' = Return(t, "FinalizeArena", 0, "ObjectNotExists") /\ madvised' = madvised
          ELSE IF LengthsDiffer(my.offsets, my.sizes)
          THEN threads' = Return(t, "FinalizeArena", 0, "UserInputError") /\ madvised' = madvised
          ELSE IF Len(my.offsets) = 0
          THEN /\ threads' = [threads EXCEPT ![t] = [pc |-> "f_erase", fd |-> my.fd,
                                                     arena |-> arenas_[my.fd]]]
               /\ madvised' = recycle_arena(arenas_[my.fd].base, arenas_[my.fd].size,
                                            my.offsets, my.sizes)
          ELSE /\ threads' = [threads EXCEPT ![t] = [pc |-> "f_emplace", fd |-> my.fd,
                                                     offsets |-> my.offsets,
                                                     sizes |-> my.sizes, idx |-> 1,
                                                     arena |-> arenas_[my.fd]]]
               /\ madvised' = madvised
    /\ PoolVarsUnchanged
    /\ UNCHANGED <<objects_, externals_, arenas_, spans, next_fd, mmap_records, made,
                   finalizeOk>>

\* FinalizeArena: one turn of the loop, objects_.emplace and spans.emplace; after
\* the last turn recycle_arena runs and arenas_.erase begins (memory.cc:370-392)
TFinalizeEmplace(t) ==
    /\ threads[t].pc = "f_emplace" /\ ~Raced
    /\ LET my == threads[t]
           pointer == my.arena.base + my.offsets[my.idx]
           object_id == GenerateBlobID(pointer)
       IN /\ objects_' = Emplace(objects_, object_id,
                                 ArenaPayload(object_id, my.sizes[my.idx], pointer,
                                              my.arena.fd, my.arena.size,
                                              my.offsets[my.idx]))
          /\ spans' = spans \cup {object_id}
          /\ IF my.idx < Len(my.offsets)
             THEN /\ threads' = [threads EXCEPT ![t].idx = my.idx + 1]
                  /\ madvised' = madvised
             ELSE /\ threads' = [threads EXCEPT ![t] = [pc |-> "f_erase", fd |-> my.fd,
                                                        arena |-> my.arena]]
                  /\ madvised' = recycle_arena(my.arena.base, my.arena.size, my.offsets,
                                               my.sizes)
    /\ PoolVarsUnchanged
    /\ UNCHANGED <<externals_, arenas_, next_fd, mmap_records, made, finalizeOk>>

\* FinalizeArena: the mmap record written and arenas_.erase done (memory.cc:387-394)
TFinalizeErase(t) ==
    /\ threads[t].pc = "f_erase" /\ ~Raced
    /\ LET my == threads[t]
       IN /\ mmap_records' = [b \in DOMAIN mmap_records \cup {my.arena.base} |->
                                IF b = my.arena.base
                                THEN [fd |-> my.fd, size |-> my.arena.size]
                                ELSE mmap_records[b]]
          /\ arenas_' = EraseArena(my.fd)
          /\ finalizeOk' = [finalizeOk EXCEPT ![my.fd] = Min(2, @ + 1)]
    /\ threads' = Return(t, "FinalizeArena", 0, "OK")
    /\ PoolVarsUnchanged
    /\ UNCHANGED <<objects_, externals_, spans, next_fd, madvised, made>>

\* Delete of a blob of an arena: objects_.find, then the walk over spans
\* begins (memory.cc:266-285)
TDeleteArena(t, object_id) ==
    /\ threads[t].pc = "idle" /\ ~Raced
    /\ \A u \in Threads \ {t} : ~(ReadsSpans(u) /\ threads[u].id = object_id)
    /\ IF object_id \in DOMAIN objects_
       THEN threads' = [threads EXCEPT ![t] = [pc |-> "a_lookup", id |-> object_id]]
       ELSE threads' = Return(t, "Delete", object_id, DeleteMiss)
    /\ PoolVarsUnchanged
    /\ UNCHANGED <<objects_, externals_, arenas_, spans, next_fd, madvised, mmap_records,
                   made, finalizeOk>>

\* Delete of a blob of an arena: the neighbours read, the window handed to
\* madvise, both erases (memory.cc:286-323)
TDeleteArenaDone(t) ==
    /\ threads[t].pc = "a_lookup" /\ ~Raced
    /\ LET object_id == threads[t].id
           object == objects_[object_id]
           window == ArenaWindow(object_id, object)
       IN IF window.status # "OK"
          THEN /\ threads' = Return(t, "Delete", object_id, window.status)
               /\ UNCHANGED <<objects_, externals_, madvised>>
          ELSE /\ madvised' = window.calls
               /\ externals_' = EraseExternal(object.external_id)
               /\ objects_' = EraseObject(object_id)
               /\ threads' = Return(t, "Delete", object_id, "OK")
    /\ PoolVarsUnchanged
    /\ UNCHANGED <<arenas_, spans, next_fd, mmap_records, made, finalizeOk>>

\* requests of FinalizeArena the worker threads send
ThreadRequests == {<<<<0>>, <<2>>>>, <<<<0, 5>>, <<2, 2>>>>, <<<<1>>, <<>>>>, <<<<>>, <<>>>>}

NextArenaConc ==
    \/ \E t \in Threads, size \in ArenaSizes : TMakeArena(t, size)
    \/ \E t \in Threads : TMakeArenaDone(t)
    \/ \E t \in Threads, fd \in Fds, req \in ThreadRequests :
          TFinalizeFind(t, fd, req[1], req[2])
    \/ \E t \in Threads : TFinalizeChecked(t)
    \/ \E t \in Threads : TFinalizeEmplace(t)
    \/ \E t \in Threads : TFinalizeErase(t)
    \/ \E t \in Threads, object_id \in DOMAIN objects_ \cup spans : TDeleteArena(t, object_id)
    \/ \E t \in Threads : TDeleteArenaDone(t)

SpecArenaConc == Init /\ [][NextArenaConc]_vars

\* ================================================================== claims
PoolIds == {GenerateBlobID(p) : p \in PoolBase..(PoolBase + SetMax(PoolSizes) - 1)}
CallOK(op) == lastOp.op = op /\ lastOp.status = "OK"

\* C1: right after a successful Create(size > 0) returning id, Exists(id) is
\* true; right after a successful Delete(id) of a non-reserved id, Exists(id)
\* is false.
C1_ExistsFollowsCreateDelete ==
    /\ (CallOK("Create") /\ lastOp.size > 0) => Exists(lastOp.id)
    /\ (CallOK("Delete") /\ ~Sentinel(lastOp.id)) => ~Exists(lastOp.id)

C1_Witness == CallOK("Delete") /\ lastOp.id \in PoolIds /\ pool.ready

\* C2: an fd of MakeArena is finalized successfully exactly once.  A successful
\* FinalizeArena is on a made fd, got equal-length lists and leaves the fd out
\* of the open table; no fd is finalized twice; the first equal-length request
\* on a made fd succeeds; a request on an fd never made, or on an fd finalized
\* before, fails with ObjectNotExists.
C2_FinalizeExactlyOnce ==
    /\ \A fd \in Fds : finalizeOk[fd] <= 1
    /\ \A fd \in Fds : finalizeOk[fd] = 1 => fd \in made /\ fd \notin DOMAIN arenas_
    /\ lastOp.op = "FinalizeArena" =>
         /\ lastOp.status = "OK" => lastOp.noffsets = lastOp.nsizes
         /\ (lastOp.fd \in made /\ lastOp.noffsets = lastOp.nsizes)
               => finalizeOk[lastOp.fd] = 1
         /\ lastOp.fd \notin made => lastOp.status = "ObjectNotExists"
         /\ (lastOp.status # "OK" /\ finalizeOk[lastOp.fd] = 1)
               => lastOp.status = "ObjectNotExists"
         /\ (lastOp.status = "UserInputError")
               => lastOp.fd \in DOMAIN arenas_ /\ lastOp.noffsets # lastOp.nsizes

C2_Witness ==
    /\ lastOp.op = "FinalizeArena" /\ lastOp.status = "ObjectNotExists"
    /\ finalizeOk[lastOp.fd] = 1

\* C3: a successful FinalizeArena with n pairwise-distinct offsets registers
\* exactly n new blobs, the i-th with id GenerateBlobID(base + offsets[i]), data
\* size sizes[i], the arena's fd, the arena's size as mapping size and
\* offsets[i] as mapping offset, and each of these ids is in spans.
PairwiseDistinct(seq) == \A i, j \in Indices(seq) : i # j => seq[i] # seq[j]

C3_FinalizeRegisters ==
    (CallOK("FinalizeArena") /\ PairwiseDistinct(lastOp.offsets)) =>
        LET arena == lastOp.arena
            id(i) == GenerateBlobID(arena.base + lastOp.offsets[i])
        IN /\ DOMAIN objects_ \ lastOp.before = {id(i) : i \in Indices(lastOp.offsets)}
           /\ Cardinality(DOMAIN objects_ \ lastOp.before) = Len(lastOp.offsets)
           /\ \A i \in Indices(lastOp.offsets) :
                /\ id(i) \in DOMAIN objects_
                /\ objects_[id(i)].object_id = id(i)
                /\ objects_[id(i)].pointer = arena.base + lastOp.offsets[i]
                /\ objects_[id(i)].data_size = lastOp.sizes[i]
                /\ objects_[id(i)].store_fd = arena.fd
                /\ objects_[id(i)].map_size = arena.size
                /\ objects_[id(i)].data_offset = lastOp.offsets[i]
                /\ id(i) \in spans

C3_Witness ==
    /\ CallOK("FinalizeArena") /\ PairwiseDistinct(lastOp.offsets)
    /\ Len(lastOp.offsets) = 2 /\ lastOp.sizes[1] # lastOp.sizes[2]

\* C4: every ObjectID in the arena-spans set has a Payload in the registry.
C4_SpansRegistered == \A object_id \in spans : object_id \in DOMAIN objects_

\* C5: however two threads interleave their Delete calls, a block of the pool
\* is handed back to BulkAllocator::Free at most once.
C5_FreedOnce == \A p \in DOMAIN freeCalls : freeCalls[p] <= 1

\* C6: Footprint() never exceeds FootprintLimit().
C6_FootprintWithinLimit == Footprint <= FootprintLimit

C6_Witness == Footprint = FootprintLimit /\ Footprint > 0 /\ CallOK("Create")

\* the blobs allocated from the pool that are registered, and their bytes
LivePoolBlobs == {object_id \in DOMAIN objects_ \ {WholeRegionID} :
                    objects_[object_id].arena_fd = -1}
LivePoolBytes == SumOver(LivePoolBlobs, [object_id \in LivePoolBlobs |->
                                           objects_[object_id].data_size])

\* C7: while every call has returned, Footprint() is the sum of the data sizes
\* of the live blobs allocated from the pool.
C7_FootprintIsLiveBytes == ~hung => Footprint = LivePoolBytes

C7_Witness ==
    /\ CallOK("Delete") /\ lastOp.id \in PoolIds
    /\ Cardinality(LivePoolBlobs) = 1 /\ Footprint > 0

C9_CreateEmpty ==
    [][(lastOp'.op = "Create" /\ lastOp'.size = 0)
          => /\ lastOp'.status = "OK"
             /\ lastOp'.id = EmptyBlobID
             /\ lastOp'.object.data_size = 0
             /\ UNCHANGED <<objects_, externals_, allocated_>>]_vars

C9_Witness == CallOK("Create") /\ lastOp.size = 0 /\ LivePoolBlobs # {}

\* C10: Delete(id) of an id that is not reserved and not in the registry fails
\* with ObjectNotExists and changes neither map, nor spans, nor the footprint.
C10_DeleteAbsent ==
    [][(lastOp'.op = "Delete" /\ ~Sentinel(lastOp'.id) /\ lastOp'.id \notin DOMAIN objects_)
          => /\ lastOp'.status = "ObjectNotExists"
             /\ UNCHANGED <<objects_, externals_, spans, allocated_>>]_vars

C10_Witness ==
    /\ lastOp.op = "Delete" /\ lastOp.status = "ObjectNotExists"
    /\ LivePoolBlobs # {}

\* the whole-region entry of PreAllocate, and a Delete of a reserved id
C11_RegionStaysRegistered ==
    pool.ready => /\ WholeRegionID \in DOMAIN objects_
                  /\ objects_[WholeRegionID].data_size = pool.size
                  /\ objects_[WholeRegionID].object_id = WholeRegionID

C11_SentinelDeleteIsNoOp ==
    (lastOp'.op = "Delete" /\ lastOp'.id \in {EmptyBlobID, WholeRegionID})
        => /\ lastOp'.status = "OK"
           /\ UNCHANGED <<objects_, externals_, allocated_>>

\* C11: once PreAllocate(capacity) has succeeded, the whole-region id is in the
\* registry with data size capacity, in every later state; Delete of the
\* whole-region id or of the empty id returns success and changes neither map
\* nor the footprint.
C11_SentinelsSurviveDelete ==
    /\ []C11_RegionStaysRegistered
    /\ [][C11_SentinelDeleteIsNoOp /\ (CallOK("PreAllocate")' => pool'.size = lastOp'.size)]_vars

C11_Witness ==
    /\ CallOK("Delete") /\ lastOp.id = WholeRegionID
    /\ pool.ready /\ LivePoolBlobs # {}

\* C12: Delete(externalId) of an external id bound to a live blob returns
\* success without waiting on an entry lock the call itself holds, and leaves
\* neither the external id nor the blob's id registered.
C12_DeleteExternalCompletes ==
    [][(/\ lastOp'.op = "DeleteExternal"
        /\ lastOp'.eid \in DOMAIN externals_
        /\ externals_[lastOp'.eid].object_id \in DOMAIN objects_)
          => /\ ~hung'
             /\ lastOp'.status = "OK"
             /\ lastOp'.eid \notin DOMAIN externals_'
             /\ externals_[lastOp'.eid].object_id \notin DOMAIN objects_']_vars

\* C13: Delete(externalId) of an external id bound to no blob returns success
\* and changes neither map, nor spans, nor the footprint; Delete(id) of an
\* object id that is not registered is an error.
C13_DeleteExternalMiss ==
    [][/\ (/\ lastOp'.op = "DeleteExternal"
           /\ "eid" \in DOMAIN lastOp'
           /\ lastOp'.eid \notin DOMAIN externals_)
             => /\ lastOp'.status = "OK"
                /\ ~hung'
                /\ UNCHANGED <<objects_, externals_, spans, allocated_>>
       /\ (/\ lastOp'.op = "Delete"
           /\ lastOp'.id \notin {EmptyBlobID, WholeRegionID}
           /\ lastOp'.id \notin DOMAIN objects_)
             => lastOp'.status # "OK"]_vars

C13_Witness ==
    /\ CallOK("DeleteExternal") /\ lastOp.eid = "x"
    /\ "x" \notin DOMAIN externals_ /\ ~hung
    /\ LivePoolBlobs # {} /\ DOMAIN externals_ # {}

\* C14: Get(id) hands back the empty payload for the empty id in any state,
\* the registered payload for an id of the main map, and fails with
\* ObjectNotExists for any other id; it never changes the registry.
C14_Get ==
    [][lastOp'.op = "Get" =>
         /\ UNCHANGED <<objects_, externals_, spans, arenas_, allocated_>>
         /\ lastOp'.id = EmptyBlobID
              => lastOp'.status = "OK" /\ lastOp'.object = MakeEmpty
         /\ (lastOp'.id # EmptyBlobID /\ lastOp'.id \in DOMAIN objects_)
              => lastOp'.status = "OK" /\ lastOp'.object = objects_[lastOp'.id]
         /\ (lastOp'.id # EmptyBlobID /\ lastOp'.id \notin DOMAIN objects_)
              => lastOp'.status = "ObjectNotExists"]_vars

C14_Witness ==
    /\ CallOK("Get") /\ lastOp.id = EmptyBlobID
    /\ lastOp.object.data_size = 0 /\ LivePoolBlobs # {}

\* the keys a batch Get resolves
ResolvesObject(object_id) == object_id = EmptyBlobID \/ object_id \in DOMAIN objects_
ResolvesExternal(external_id) == external_id \in DOMAIN externals_

C16_MismatchIsUserInputError ==
    (lastOp.op = "FinalizeArena" /\ lastOp.noffsets # lastOp.nsizes)
        => lastOp.status = "UserInputError"

\* C16 as amended: a FinalizeArena call on an fd of the open table whose lists
\* differ in length fails with UserInputError and leaves the fd open; on an fd
\* that is not in the open table it fails with ObjectNotExists.
C16_MismatchOnOpenFd ==
    [][(lastOp'.op = "FinalizeArena" /\ lastOp'.noffsets # lastOp'.nsizes)
          => /\ lastOp'.fd \in DOMAIN arenas_
                  => lastOp'.status = "UserInputError" /\ UNCHANGED arenas_
             /\ lastOp'.fd \notin DOMAIN arenas_
                  => lastOp'.status = "ObjectNotExists"]_vars

C16_Witness ==
    /\ lastOp.op = "FinalizeArena" /\ lastOp.status = "UserInputError"
    /\ lastOp.fd \in DOMAIN arenas_ /\ lastOp.noffsets < lastOp.nsizes

\* the neighbours of an id in spans: the greatest id below, the least above
AdjacentSpans(object_id) ==
    LET below == {s \in spans : s < object_id}
        above == {s \in spans : s > object_id}
    IN (IF below = {} THEN {} ELSE {SetMax(below)})
         \cup (IF above = {} THEN {} ELSE {SetMin(above)})

\* C17: when Delete removes a blob of an arena whose neighbours in spans (the
\* greatest id below it, the least id above it) are registered, every range
\* it hands to madvise starts and ends on a page boundary, is not empty, and
\* holds no byte of [pointer, pointer + data_size) of either neighbour.
C17_WindowSparesNeighbours ==
    [][(/\ lastOp'.op = "Delete" /\ lastOp'.status = "OK"
        /\ lastOp'.id \in DOMAIN objects_
        /\ objects_[lastOp'.id].arena_fd # -1
        /\ AdjacentSpans(lastOp'.id) \subseteq DOMAIN objects_)
          => \A call \in madvised' :
                /\ call.addr % PageSize = 0
                /\ call.length % PageSize = 0
                /\ call.length > 0 /\ call.addr + call.length < Word
                /\ \A n \in AdjacentSpans(lastOp'.id) :
                     \A byte \in objects_[n].pointer ..
                                   (objects_[n].pointer + objects_[n].data_size - 1) :
                        byte < call.addr \/ byte >= call.addr + call.length]_vars

C17_Witness ==
    /\ CallOK("Delete") /\ lastOp.id \in spans /\ madvised # {}
    /\ Cardinality(AdjacentSpans(lastOp.id)) = 2
    /\ AdjacentSpans(lastOp.id) \subseteq DOMAIN objects_

\* C18: madvise is only ever issued for a range whose page-aligned start lies
\* strictly below its page-aligned end, whether the range comes from a gap of
\* recycle_arena or from the window of Delete; when the start rounded up is at
\* or above the end rounded down nothing is issued.
C18_AdviceOnlyForward ==
    \A call \in madvised :
        /\ call.addr % PageSize = 0
        /\ call.length > 0
        /\ call.addr + call.length <= UintptrMax

\* the bytes of [0, size) no interval covers, and their maximal runs
Uncovered(size, offsets, sizes) ==
    {b \in 0..(size - 1) :
        \A i \in Indices(offsets) : b < offsets[i] \/ b >= offsets[i] + sizes[i]}

MaximalGaps(size, offsets, sizes) ==
    LET free == Uncovered(size, offsets, sizes)
    IN {g \in (0..size) \X (0..size) :
          /\ g[1] < g[2]
          /\ \A b \in g[1]..(g[2] - 1) : b \in free
          /\ (g[1] - 1) \notin free
          /\ g[2] \notin free}

\* C19: for intervals (offset, length), length >= 0, inside [0, size), the
\* ranges recycle_arena hands to the range reclaimer are exactly the maximal
\* runs of bytes of [0, size) that no interval covers, one range per run.
C19_GapsAreMaximal ==
    lastOp.op = "recycle_arena"
        => lastOp.gaps = MaximalGaps(lastOp.size, lastOp.offsets, lastOp.sizes)

\* C20: every range recycle_arena passes on lies where the running cover
\* count is zero, and rounding to pages only shrinks it: each madvise call
\* covers at least one byte, and every byte it covers is a byte of the arena
\* that no interval covers.
C20_OnlyUncoveredBytes ==
    lastOp.op = "recycle_arena" =>
        /\ \A g \in lastOp.gaps :
             \A b \in g[1]..(g[2] - 1) :
                b \in Uncovered(lastOp.size, lastOp.offsets, lastOp.sizes)
        /\ \A call \in madvised :
             /\ call.length > 0
             /\ \A byte \in call.addr..(call.addr + call.length - 1) :
                  (byte - lastOp.base)
                      \in Uncovered(lastOp.size, lastOp.offsets, lastOp.sizes)

\* C21: recycle_arena(base, 100, [(10, 20), (15, 10)]) hands only [0, 10) and
\* [25, 100) to the range reclaimer.
C21_ExampleGaps ==
    (lastOp.op = "recycle_arena" /\ lastOp.size = ExampleSize)
        => lastOp.gaps = {<<0, 10>>, <<25, 100>>}

\* C21 as amended: with the intervals read as (offset, length), covering
\* [10, 30), recycle_arena hands exactly [0, 10) and [30, 100) to the range
\* reclaimer.
C21_ExampleGapsByLength ==
    (lastOp.op = "recycle_arena" /\ lastOp.size = ExampleSize)
        => lastOp.gaps = {<<0, 10>>, <<30, 100>>}

C21_Witness ==
    /\ lastOp.op = "recycle_arena" /\ lastOp.size = ExampleSize
    /\ lastOp.offsets = <<10, 15>> /\ lastOp.sizes = <<20, 10>>
    /\ madvised # {}

\* C22: after MakeArena(100), FinalizeArena(fd, [0, 100], [50, 50]) leaves no
\* uncovered range in the arena (the reclaimer gets no gap and madvise is not
\* called) and registers exactly 2 new ids, both in spans.
C22_ExampleFinalize ==
    (/\ CallOK("FinalizeArena") /\ lastOp.arena.size = ExampleSize
     /\ lastOp.offsets = <<0, 100>> /\ lastOp.sizes = <<50, 50>>)
        => /\ ArenaGaps(lastOp.arena.size, lastOp.offsets, lastOp.sizes) = {}
           /\ madvised = {}
           /\ Cardinality(DOMAIN objects_ \ lastOp.before) = 2
           /\ (DOMAIN objects_ \ lastOp.before) \subseteq spans

\* C22 as amended: after MakeArena(100), FinalizeArena(fd, [0, 50], [50, 50])
\* (two adjacent blobs covering the whole arena) leaves no uncovered range in
\* the arena and registers exactly 2 new ids, both in spans.
C22_ExampleFinalizeAdjacent ==
    (/\ CallOK("FinalizeArena") /\ lastOp.arena.size = ExampleSize
     /\ lastOp.offsets = <<0, 50>> /\ lastOp.sizes = <<50, 50>>)
        => /\ ArenaGaps(lastOp.arena.size, lastOp.offsets, lastOp.sizes) = {}
           /\ madvised = {}
           /\ Cardinality(DOMAIN objects_ \ lastOp.before) = 2
           /\ (DOMAIN objects_ \ lastOp.before) \subseteq spans

C22_Witness ==
    /\ CallOK("FinalizeArena") /\ lastOp.arena.size = ExampleSize
    /\ lastOp.offsets = <<0, 50>> /\ lastOp.sizes = <<50, 50>>
    /\ Cardinality(spans) = 2

\* C23: in no interleaving of the worker threads is a thread reading or
\* mutating arenas_ (MakeArena, FinalizeArena) or spans (FinalizeArena, the
\* neighbour lookup of Delete) while another thread is mutating it.
C23_ArenaStateSerialized == ~Raced

\* C24: MakeArena, FinalizeArena and Delete of a blob of an arena leave
\* Footprint() as it was, and the Delete hands no block back to the allocator.
C24_ArenaOpsKeepFootprint ==
    [][/\ lastOp'.op \in {"MakeArena", "FinalizeArena"}
            => UNCHANGED <<allocated_, heap, footprint_limit_>>
       /\ (/\ lastOp'.op \in {"Delete", "DeleteExternal"}
           /\ "id" \in DOMAIN lastOp'
           /\ lastOp'.id \in DOMAIN objects_
           /\ lastOp'.id \in spans
           /\ lastOp'.id # WholeRegionID)
            => UNCHANGED <<allocated_, heap, footprint_limit_>>]_vars

C24_Witness ==
    /\ CallOK("Delete") /\ lastOp.id \in spans /\ lastOp.id \notin DOMAIN objects_
    /\ Footprint > 0

\* C25: a successful Create(size), the form that takes no external id (it
\* is the one that passes external size 0), leaves the external map as it was,
\* so that no external id becomes bound that no caller supplied.
C25_SizeOnlyCreateKeepsExternals ==
    [][(/\ lastOp'.op = "Create" /\ lastOp'.status = "OK" /\ lastOp'.size > 0
        /\ lastOp'.object.external_size = 0)
          => externals_' = externals_]_vars

\* C26: every entry of the main map has as key the object id of its payload,
\* which is the id derived from the payload's pointer, and no two entries hold
\* payloads with the same pointer.
C26_OnePayloadPerId ==
    /\ \A id \in DOMAIN objects_ :
         /\ objects_[id].object_id = id
         /\ id = GenerateBlobID(objects_[id].pointer)
    /\ \A a, b \in DOMAIN objects_ :
         a # b => objects_[a].pointer # objects_[b].pointer

\* C26 as amended: every entry of the main map has as key the object id of
\* its payload; for every entry but the whole-region one of PreAllocate that
\* id is the one derived from the payload's pointer, and no two of these
\* entries hold payloads with the same pointer.
C26_OnePayloadPerBlobId ==
    /\ \A id \in DOMAIN objects_ : objects_[id].object_id = id
    /\ \A id \in DOMAIN objects_ \ {WholeRegionID} :
         id = GenerateBlobID(objects_[id].pointer)
    /\ \A a, b \in DOMAIN objects_ \ {WholeRegionID} :
         a # b => objects_[a].pointer # objects_[b].pointer

C26_Witness ==
    /\ pool.ready /\ GenerateBlobID(PoolBase) \in DOMAIN objects_
    /\ objects_[WholeRegionID].pointer = objects_[GenerateBlobID(PoolBase)].pointer
    /\ Cardinality(spans \cap DOMAIN objects_) = 2

\* C27: a payload does not change while its blob is registered: an id that
\* is in the main map before and after a call has the same payload (pointer,
\* data size, fd, mapping size, mapping offset, external id) after it as
\* before, and no emplace of Create or FinalizeArena replaces an entry that is
\* there: of several blobs a FinalizeArena call places at one offset, the
\* first one registered stays.
C27_PayloadImmutable ==
    [][/\ \A id \in DOMAIN objects_ \cap DOMAIN objects_' : objects_'[id] = objects_[id]
       /\ (lastOp'.op = "FinalizeArena" /\ lastOp'.status = "OK") =>
            \A i \in Indices(lastOp'.offsets) :
               LET id == GenerateBlobID(lastOp'.arena.base + lastOp'.offsets[i])
                   first == SetMin({j \in Indices(lastOp'.offsets) :
                                       lastOp'.offsets[j] = lastOp'.offsets[i]})
               IN id \notin DOMAIN objects_
                     => objects_'[id].data_size = lastOp'.sizes[first]]_vars

C27_Witness ==
    /\ CallOK("FinalizeArena") /\ Len(lastOp.offsets) = 2
    /\ lastOp.offsets[1] = lastOp.offsets[2] /\ lastOp.sizes[1] # lastOp.sizes[2]
    /\ LivePoolBlobs # {}


\* ===================================================== wire codec (protocols.cc)
\* A message is represented by the json tree its text parses to: a function
\* from keys to values.  encode_msg dumps the tree a Write function has built,
\* and the caller of a Read function parses the text back before the call.

\* one row per Write function: the tag it writes, its parameters with their
\* types, and the assignments to root[...] in source order as
\* <<key, how the value is made, parameter>>
WriteTable ==
    <<
      \* lines 126-128
      [name |-> "ErrorReply", shape |-> "ErrorReply", tag |-> "",
       params |-> <<<<"status", "status">>>>,
       fields |-> <<<<"", "StatusToJSON", "status">>>>],
      \* lines 130-136
      [name |-> "RegisterRequest", shape |-> "RegisterRequest", tag |-> "register_request",
       params |-> <<>>,
       fields |-> <<<<"version", "version", "">>>>],
      \* lines 147-157
      [name |-> "RegisterReply", shape |-> "RegisterReply", tag |-> "register_reply",
       params |-> <<<<"ipc_socket", "string">>, <<"rpc_endpoint", "string">>, <<"instance_id", "uint">>>>,
       fields |-> <<<<"ipc_socket", "copy", "ipc_socket">>, <<"rpc_endpoint", "copy", "rpc_endpoint">>, <<"instance_id", "copy", "instance_id">>, <<"version", "version", "">>>>],
      \* lines 173-178
      [name |-> "ExitRequest", shape |-> "ExitRequest", tag |-> "exit_request",
       params |-> <<>>,
       fields |-> <<>>],
      \* lines 180-189
      [name |-> "GetDataRequest(id, sync_remote, wait)", shape |-> "GetDataRequest", tag |-> "get_data_request",
       params |-> <<<<"id", "uint">>, <<"sync_remote", "bool">>, <<"wait", "bool">>>>,
       fields |-> <<<<"id", "wrap", "id">>, <<"sync_remote", "copy", "sync_remote">>, <<"wait", "copy", "wait">>>>],
      \* lines 191-201
      [name |-> "GetDataRequest(ids, sync_remote, wait)", shape |-> "GetDataRequest", tag |-> "get_data_request",
       params |-> <<<<"ids", "uints">>, <<"sync_remote", "bool">>, <<"wait", "bool">>>>,
       fields |-> <<<<"id", "copy", "ids">>, <<"sync_remote", "copy", "sync_remote">>, <<"wait", "copy", "wait">>>>],
      \* lines 212-218
      [name |-> "GetDataReply", shape |-> "GetDataReply", tag |-> "get_data_reply",
       params |-> <<<<"content", "json">>>>,
       fields |-> <<<<"content", "copy", "content">>>>],
      \* lines 241-250
      [name |-> "ListDataRequest", shape |-> "ListDataRequest", tag |-> "list_data_request",
       params |-> <<<<"pattern", "string">>, <<"regex", "bool">>, <<"limit", "uint">>>>,
       fields |-> <<<<"pattern", "copy", "pattern">>, <<"regex", "copy", "regex">>, <<"limit", "copy", "limit">>>>],
      \* lines 261-270
      [name |-> "CreateBufferRequest", shape |-> "CreateBufferRequest", tag |-> "create_buffer_request",
       params |-> <<<<"size", "uint">>, <<"external_id", "string">>, <<"external_size", "uint">>>>,
       fields |-> <<<<"size", "copy", "size">>, <<"external_size", "copy", "external_size">>, <<"external_id", "copy", "external_id">>>>],
      \* lines 281-292
      [name |-> "CreateBufferReply", shape |-> "CreateBufferReply", tag |-> "create_buffer_reply",
       params |-> <<<<"id", "uint">>, <<"object", "payload">>>>,
       fields |-> <<<<"id", "copy", "id">>, <<"created", "ToJSON", "object">>>>],
      \* lines 302-308
      [name |-> "CreateRemoteBufferRequest", shape |-> "CreateRemoteBufferRequest", tag |-> "create_remote_buffer_request",
       params |-> <<<<"size", "uint">>>>,
       fields |-> <<<<"size", "copy", "size">>>>],
      \* lines 316-326
      [name |-> "GetBuffersRequest", shape |-> "GetBuffersRequest", tag |-> "get_buffers_request",
       params |-> <<<<"ids", "idset">>>>,
       fields |-> <<<<"", "items", "ids">>, <<"num", "size", "ids">>>>],
      \* lines 337-348
      [name |-> "GetBuffersByExternalRequest", shape |-> "GetBuffersByExternalRequest", tag |-> "get_buffers_by_external_request",
       params |-> <<<<"eids", "eidset">>>>,
       fields |-> <<<<"", "items", "eids">>, <<"num", "size", "eids">>>>],
      \* lines 360-372
      [name |-> "GetBuffersReply", shape |-> "GetBuffersReply", tag |-> "get_buffers_reply",
       params |-> <<<<"objects", "payloads">>>>,
       fields |-> <<<<"", "itemsToJSON", "objects">>, <<"num", "size", "objects">>>>],
      \* lines 385-396
      [name |-> "GetRemoteBuffersRequest", shape |-> "GetRemoteBuffersRequest", tag |-> "get_remote_buffers_request",
       params |-> <<<<"ids", "idbag">>>>,
       fields |-> <<<<"", "items", "ids">>, <<"num", "size", "ids">>>>],
      \* lines 408-414
      [name |-> "DropBufferRequest", shape |-> "DropBufferRequest", tag |-> "drop_buffer_request",
       params |-> <<<<"id", "uint">>>>,
       fields |-> <<<<"id", "copy", "id">>>>],
      \* lines 422-427
      [name |-> "DropBufferReply", shape |-> "DropBufferReply", tag |-> "drop_buffer_reply",
       params |-> <<>>,
       fields |-> <<>>],
      \* lines 434-440
      [name |-> "CreateDataRequest", shape |-> "CreateDataRequest", tag |-> "create_data_request",
       params |-> <<<<"content", "json">>>>,
       fields |-> <<<<"content", "copy", "content">>>>],
      \* lines 448-457
      [name |-> "CreateDataReply", shape |-> "CreateDataReply", tag |-> "create_data_reply",
       params |-> <<<<"id", "uint">>, <<"signature", "uint">>, <<"instance_id", "uint">>>>,
       fields |-> <<<<"id", "copy", "id">>, <<"signature", "copy", "signature">>, <<"instance_id", "copy", "instance_id">>>>],
      \* lines 468-474
      [name |-> "PersistRequest", shape |-> "PersistRequest", tag |-> "persist_request",
       params |-> <<<<"id", "uint">>>>,
       fields |-> <<<<"id", "copy", "id">>>>],
      \* lines 482-487
      [name |-> "PersistReply", shape |-> "PersistReply", tag |-> "persist_reply",
       params |-> <<>>,
       fields |-> <<>>],
      \* lines 494-500
      [name |-> "IfPersistRequest", shape |-> "IfPersistRequest", tag |-> "if_persist_request",
       params |-> <<<<"id", "uint">>>>,
       fields |-> <<<<"id", "copy", "id">>>>],
      \* lines 508-514
      [name |-> "IfPersistReply", shape |-> "IfPersistReply", tag |-> "if_persist_reply",
       params |-> <<<<"persist", "bool">>>>,
       fields |-> <<<<"persist", "copy", "persist">>>>],
      \* lines 522-528
      [name |-> "ExistsRequest", shape |-> "ExistsRequest", tag |-> "exists_request",
       params |-> <<<<"id", "uint">>>>,
       fields |-> <<<<"id", "copy", "id">>>>],
      \* lines 536-542
      [name |-> "ExistsReply", shape |-> "ExistsReply", tag |-> "exists_reply",
       params |-> <<<<"exists", "bool">>>>,
       fields |-> <<<<"exists", "copy", "exists">>>>],
      \* lines 550-560
      [name |-> "DelDataRequest(id, force, deep, fastpath)", shape |-> "DelDataRequest", tag |-> "del_data_request",
       params |-> <<<<"id", "uint">>, <<"force", "bool">>, <<"deep", "bool">>, <<"fastpath", "bool">>>>,
       fields |-> <<<<"id", "wrap", "id">>, <<"force", "copy", "force">>, <<"deep", "copy", "deep">>, <<"fastpath", "copy", "fastpath">>>>],
      \* lines 562-573
      [name |-> "DelDataRequest(ids, force, deep, fastpath)", shape |-> "DelDataRequest", tag |-> "del_data_request",
       params |-> <<<<"ids", "uints">>, <<"force", "bool">>, <<"deep", "bool">>, <<"fastpath", "bool">>>>,
       fields |-> <<<<"id", "copy", "ids">>, <<"force", "copy", "force">>, <<"deep", "copy", "deep">>, <<"fastpath", "copy", "fastpath">>>>],
      \* lines 585-590
      [name |-> "DelDataReply", shape |-> "DelDataReply", tag |-> "del_data_reply",
       params |-> <<>>,
       fields |-> <<>>],
      \* lines 597-602
      [name |-> "ClusterMetaRequest", shape |-> "ClusterMetaRequest", tag |-> "cluster_meta",
       params |-> <<>>,
       fields |-> <<>>],
      \* lines 609-615
      [name |-> "ClusterMetaReply", shape |-> "ClusterMetaReply", tag |-> "cluster_meta",
       params |-> <<<<"meta", "json">>>>,
       fields |-> <<<<"meta", "copy", "meta">>>>],
      \* lines 623-628
      [name |-> "InstanceStatusRequest", shape |-> "InstanceStatusRequest", tag |-> "instance_status_request",
       params |-> <<>>,
       fields |-> <<>>],
      \* lines 635-641
      [name |-> "InstanceStatusReply", shape |-> "InstanceStatusReply", tag |-> "instance_status_reply",
       params |-> <<<<"meta", "json">>>>,
       fields |-> <<<<"meta", "copy", "meta">>>>],
      \* lines 649-657
      [name |-> "PutNameRequest", shape |-> "PutNameRequest", tag |-> "put_name_request",
       params |-> <<<<"object_id", "uint">>, <<"name", "string">>>>,
       fields |-> <<<<"object_id", "copy", "object_id">>, <<"name", "copy", "name">>>>],
      \* lines 667-672
      [name |-> "PutNameReply", shape |-> "PutNameReply", tag |-> "put_name_reply",
       params |-> <<>>,
       fields |-> <<>>],
      \* lines 679-687
      [name |-> "GetNameRequest", shape |-> "GetNameRequest", tag |-> "get_name_request",
       params |-> <<<<"name", "string">>, <<"wait", "bool">>>>,
       fields |-> <<<<"name", "copy", "name">>, <<"wait", "copy", "wait">>>>],
      \* lines 696-702
      [name |-> "GetNameReply", shape |-> "GetNameReply", tag |-> "get_name_reply",
       params |-> <<<<"object_id", "uint">>>>,
       fields |-> <<<<"object_id", "copy", "object_id">>>>],
      \* lines 710-716
      [name |-> "DropNameRequest", shape |-> "DropNameRequest", tag |-> "drop_name_request",
       params |-> <<<<"name", "string">>>>,
       fields |-> <<<<"name", "copy", "name">>>>],
      \* lines 724-729
      [name |-> "DropNameReply", shape |-> "DropNameReply", tag |-> "drop_name_reply",
       params |-> <<>>,
       fields |-> <<>>],
      \* lines 736-749
      [name |-> "MigrateObjectRequest", shape |-> "MigrateObjectRequest", tag |-> "migrate_object_request",
       params |-> <<<<"object_id", "uint">>, <<"local", "bool">>, <<"is_stream", "bool">>, <<"peer", "string">>, <<"peer_rpc_endpoint", "string">>>>,
       fields |-> <<<<"object_id", "copy", "object_id">>, <<"local", "copy", "local">>, <<"is_stream", "copy", "is_stream">>, <<"peer", "copy", "peer">>, <<"peer_rpc_endpoint", "copy", "peer_rpc_endpoint">>>>],
      \* lines 764-770
      [name |-> "MigrateObjectReply", shape |-> "MigrateObjectReply", tag |-> "migrate_object_reply",
       params |-> <<<<"object_id", "uint">>>>,
       fields |-> <<<<"object_id", "copy", "object_id">>>>],
      \* lines 778-784
      [name |-> "CreateStreamRequest", shape |-> "CreateStreamRequest", tag |-> "create_stream_request",
       params |-> <<<<"object_id", "uint">>>>,
       fields |-> <<<<"object_id", "copy", "object_id">>>>],
      \* lines 792-797
      [name |-> "CreateStreamReply", shape |-> "CreateStreamReply", tag |-> "create_stream_reply",
       params |-> <<>>,
       fields |-> <<>>],
      \* lines 804-812
      [name |-> "OpenStreamRequest", shape |-> "OpenStreamRequest", tag |-> "open_stream_request",
       params |-> <<<<"object_id", "uint">>, <<"mode", "uint">>>>,
       fields |-> <<<<"object_id", "copy", "object_id">>, <<"mode", "copy", "mode">>>>],
      \* lines 822-827
      [name |-> "OpenStreamReply", shape |-> "OpenStreamReply", tag |-> "open_stream_reply",
       params |-> <<>>,
       fields |-> <<>>],
      \* lines 834-842
      [name |-> "GetNextStreamChunkRequest", shape |-> "GetNextStreamChunkRequest", tag |-> "get_next_stream_chunk_request",
       params |-> <<<<"stream_id", "uint">>, <<"size", "uint">>>>,
       fields |-> <<<<"id", "copy", "stream_id">>, <<"size", "copy", "size">>>>],
      \* lines 852-861
      [name |-> "GetNextStreamChunkReply", shape |-> "GetNextStreamChunkReply", tag |-> "get_next_stream_chunk_reply",
       params |-> <<<<"object", "payload">>>>,
       fields |-> <<<<"buffer", "ToJSON", "object">>>>],
      \* lines 869-877
      [name |-> "PushNextStreamChunkRequest", shape |-> "PushNextStreamChunkRequest", tag |-> "push_next_stream_chunk_request",
       params |-> <<<<"stream_id", "uint">>, <<"chunk", "uint">>>>,
       fields |-> <<<<"id", "copy", "stream_id">>, <<"chunk", "copy", "chunk">>>>],
      \* lines 887-891
      [name |-> "PushNextStreamChunkReply", shape |-> "PushNextStreamChunkReply", tag |-> "push_next_stream_chunk_reply",
       params |-> <<>>,
       fields |-> <<>>],
      \* lines 898-905
      [name |-> "PullNextStreamChunkRequest", shape |-> "PullNextStreamChunkRequest", tag |-> "pull_next_stream_chunk_request",
       params |-> <<<<"stream_id", "uint">>>>,
       fields |-> <<<<"id", "copy", "stream_id">>>>],
      \* lines 913-919
      [name |-> "PullNextStreamChunkReply", shape |-> "PullNextStreamChunkReply", tag |-> "pull_next_stream_chunk_reply",
       params |-> <<<<"chunk", "uint">>>>,
       fields |-> <<<<"chunk", "copy", "chunk">>>>],
      \* lines 927-935
      [name |-> "StopStreamRequest", shape |-> "StopStreamRequest", tag |-> "stop_stream_request",
       params |-> <<<<"stream_id", "uint">>, <<"failed", "bool">>>>,
       fields |-> <<<<"id", "copy", "stream_id">>, <<"failed", "copy", "failed">>>>],
      \* lines 945-950
      [name |-> "StopStreamReply", shape |-> "StopStreamReply", tag |-> "stop_stream_reply",
       params |-> <<>>,
       fields |-> <<>>],
      \* lines 957-963
      [name |-> "ShallowCopyRequest(id)", shape |-> "ShallowCopyRequest", tag |-> "shallow_copy_request",
       params |-> <<<<"id", "uint">>>>,
       fields |-> <<<<"id", "copy", "id">>>>],
      \* lines 965-973
      [name |-> "ShallowCopyRequest(id, extra_metadata)", shape |-> "ShallowCopyRequest", tag |-> "shallow_copy_request",
       params |-> <<<<"id", "uint">>, <<"extra_metadata", "json">>>>,
       fields |-> <<<<"id", "copy", "id">>, <<"extra", "copy", "extra_metadata">>>>],
      \* lines 983-989
      [name |-> "ShallowCopyReply", shape |-> "ShallowCopyReply", tag |-> "shallow_copy_reply",
       params |-> <<<<"target_id", "uint">>>>,
       fields |-> <<<<"target_id", "copy", "target_id">>>>],
      \* lines 997-1007
      [name |-> "DeepCopyRequest", shape |-> "DeepCopyRequest", tag |-> "deep_copy_request",
       params |-> <<<<"object_id", "uint">>, <<"peer", "string">>, <<"peer_rpc_endpoint", "string">>>>,
       fields |-> <<<<"object_id", "copy", "object_id">>, <<"peer", "copy", "peer">>, <<"peer_rpc_endpoint", "copy", "peer_rpc_endpoint">>>>],
      \* lines 1019-1025
      [name |-> "DeepCopyReply", shape |-> "DeepCopyReply", tag |-> "deep_copy_reply",
       params |-> <<<<"object_id", "uint">>>>,
       fields |-> <<<<"object_id", "copy", "object_id">>>>],
      \* lines 1033-1039
      [name |-> "MakeArenaRequest", shape |-> "MakeArenaRequest", tag |-> "make_arena_request",
       params |-> <<<<"size", "uint">>>>,
       fields |-> <<<<"size", "copy", "size">>>>],
      \* lines 1047-1056
      [name |-> "MakeArenaReply", shape |-> "MakeArenaReply", tag |-> "make_arena_reply",
       params |-> <<<<"fd", "uint">>, <<"size", "uint">>, <<"base", "uint">>>>,
       fields |-> <<<<"fd", "copy", "fd">>, <<"size", "copy", "size">>, <<"base", "copy", "base">>>>],
      \* lines 1067-1077
      [name |-> "FinalizeArenaRequest", shape |-> "FinalizeArenaRequest", tag |-> "finalize_arena_request",
       params |-> <<<<"fd", "uint">>, <<"offsets", "uints">>, <<"sizes", "uints">>>>,
       fields |-> <<<<"fd", "copy", "fd">>, <<"offsets", "copy", "offsets">>, <<"sizes", "copy", "sizes">>>>],
      \* lines 1089-1093
      [name |-> "FinalizeArenaReply", shape |-> "FinalizeArenaReply", tag |-> "finalize_arena_reply",
       params |-> <<>>,
       fields |-> <<>>],
      \* lines 1100-1105
      [name |-> "ClearRequest", shape |-> "ClearRequest", tag |-> "clear_request",
       params |-> <<>>,
       fields |-> <<>>],
      \* lines 1112-1116
      [name |-> "ClearReply", shape |-> "ClearReply", tag |-> "clear_reply",
       params |-> <<>>,
       fields |-> <<>>],
      \* lines 1123-1128
      [name |-> "DebugRequest", shape |-> "DebugRequest", tag |-> "debug_command",
       params |-> <<<<"debug", "json">>>>,
       fields |-> <<<<"debug", "copy", "debug">>>>],
      \* lines 1136-1141
      [name |-> "DebugReply", shape |-> "DebugReply", tag |-> "debug_reply",
       params |-> <<<<"result", "json">>>>,
       fields |-> <<<<"result", "copy", "result">>>>],
      \* lines 1149-1155
      [name |-> "ModifyReferenceCountRequest", shape |-> "ModifyReferenceCountRequest", tag |-> "modify_reference_count_request",
       params |-> <<<<"eid", "string">>, <<"changes", "uint">>>>,
       fields |-> <<<<"external_id", "copy", "eid">>, <<"changes", "copy", "changes">>>>],
      \* lines 1164-1168
      [name |-> "ModifyReferenceCountReply", shape |-> "ModifyReferenceCountReply", tag |-> "modify_reference_count_reply",
       params |-> <<>>,
       fields |-> <<>>]
    >>

\* one row per Read function: how it checks the record, the tag it expects,
\* its output parameters with their types, and its reads of root[...] in
\* source order as <<output parameter, how it is read, key>>
ReadTable ==
    <<
      \* lines 138-145
      [name |-> "RegisterRequest", shape |-> "RegisterRequest", check |-> "RETURN_ON_ASSERT", tag |-> "register_request",
       params |-> <<<<"version", "string">>>>,
       steps |-> <<<<"version", "value", "version">>>>],
      \* lines 159-171
      [name |-> "RegisterReply", shape |-> "RegisterReply", check |-> "CHECK_IPC_ERROR", tag |-> "register_reply",
       params |-> <<<<"ipc_socket", "string">>, <<"rpc_endpoint", "string">>, <<"instance_id", "uint">>, <<"version", "string">>>>,
       steps |-> <<<<"ipc_socket", "get", "ipc_socket">>, <<"rpc_endpoint", "get", "rpc_endpoint">>, <<"instance_id", "get", "instance_id">>, <<"version", "value", "version">>>>],
      \* lines 203-210
      [name |-> "GetDataRequest", shape |-> "GetDataRequest", check |-> "RETURN_ON_ASSERT", tag |-> "get_data_request",
       params |-> <<<<"ids", "uints">>, <<"sync_remote", "bool">>, <<"wait", "bool">>>>,
       steps |-> <<<<"ids", "get", "id">>, <<"sync_remote", "value", "sync_remote">>, <<"wait", "value", "wait">>>>],
      \* lines 220-230
      [name |-> "GetDataReply(json)", shape |-> "GetDataReply", check |-> "CHECK_IPC_ERROR", tag |-> "get_data_reply",
       params |-> <<<<"content", "json">>>>,
       steps |-> <<<<"content", "single", "content">>>>],
      \* lines 232-239
      [name |-> "GetDataReply(map)", shape |-> "GetDataReply", check |-> "CHECK_IPC_ERROR", tag |-> "get_data_reply",
       params |-> <<<<"content", "map">>>>,
       steps |-> <<<<"content", "emplace", "content">>>>],
      \* lines 252-259
      [name |-> "ListDataRequest", shape |-> "ListDataRequest", check |-> "RETURN_ON_ASSERT", tag |-> "list_data_request",
       params |-> <<<<"pattern", "string">>, <<"regex", "bool">>, <<"limit", "uint">>>>,
       steps |-> <<<<"pattern", "get", "pattern">>, <<"regex", "value", "regex">>, <<"limit", "get", "limit">>>>],
      \* lines 272-279
      [name |-> "CreateBufferRequest", shape |-> "CreateBufferRequest", check |-> "RETURN_ON_ASSERT", tag |-> "create_buffer_request",
       params |-> <<<<"size", "uint">>, <<"external_id", "string">>, <<"external_size", "uint">>>>,
       steps |-> <<<<"size", "get", "size">>, <<"external_id", "get", "external_id">>, <<"external_size", "get", "external_size">>>>],
      \* lines 294-300
      [name |-> "CreateBufferReply", shape |-> "CreateBufferReply", check |-> "CHECK_IPC_ERROR", tag |-> "create_buffer_reply",
       params |-> <<<<"id", "uint">>, <<"object", "payload">>>>,
       steps |-> <<<<"object", "FromJSON", "created">>, <<"id", "get", "id">>>>],
      \* lines 310-314
      [name |-> "CreateRemoteBufferRequest", shape |-> "CreateRemoteBufferRequest", check |-> "RETURN_ON_ASSERT", tag |-> "create_remote_buffer_request",
       params |-> <<<<"size", "uint">>>>,
       steps |-> <<<<"size", "get", "size">>>>],
      \* lines 328-335
      [name |-> "GetBuffersRequest", shape |-> "GetBuffersRequest", check |-> "RETURN_ON_ASSERT", tag |-> "get_buffers_request",
       params |-> <<<<"ids", "uints">>>>,
       steps |-> <<<<"ids", "push_back", "num">>>>],
      \* lines 350-358
      [name |-> "GetBuffersByExternalRequest", shape |-> "GetBuffersByExternalRequest", check |-> "RETURN_ON_ASSERT", tag |-> "get_buffers_by_external_request",
       params |-> <<<<"eids", "strings">>>>,
       steps |-> <<<<"eids", "push_back", "num">>>>],
      \* lines 374-383
      [name |-> "GetBuffersReply", shape |-> "GetBuffersReply", check |-> "CHECK_IPC_ERROR", tag |-> "get_buffers_reply",
       params |-> <<<<"objects", "payloads">>>>,
       steps |-> <<<<"objects", "emplace_back", "num">>>>],
      \* lines 398-406
      [name |-> "GetRemoteBuffersRequest", shape |-> "GetRemoteBuffersRequest", check |-> "RETURN_ON_ASSERT", tag |-> "get_remote_buffers_request",
       params |-> <<<<"ids", "uints">>>>,
       steps |-> <<<<"ids", "push_back", "num">>>>],
      \* lines 416-420
      [name |-> "DropBufferRequest", shape |-> "DropBufferRequest", check |-> "RETURN_ON_ASSERT", tag |-> "drop_buffer_request",
       params |-> <<<<"id", "uint">>>>,
       steps |-> <<<<"id", "get", "id">>>>],
      \* lines 429-432
      [name |-> "DropBufferReply", shape |-> "DropBufferReply", check |-> "CHECK_IPC_ERROR", tag |-> "drop_buffer_reply",
       params |-> <<>>,
       steps |-> <<>>],
      \* lines 442-446
      [name |-> "CreateDataRequest", shape |-> "CreateDataRequest", check |-> "RETURN_ON_ASSERT", tag |-> "create_data_request",
       params |-> <<<<"content", "json">>>>,
       steps |-> <<<<"content", "get", "content">>>>],
      \* lines 459-466
      [name |-> "CreateDataReply", shape |-> "CreateDataReply", check |-> "CHECK_IPC_ERROR", tag |-> "create_data_reply",
       params |-> <<<<"id", "uint">>, <<"signature", "uint">>, <<"instance_id", "uint">>>>,
       steps |-> <<<<"id", "get", "id">>, <<"signature", "get", "signature">>, <<"instance_id", "get", "instance_id">>>>],
      \* lines 476-480
      [name |-> "PersistRequest", shape |-> "PersistRequest", check |-> "RETURN_ON_ASSERT", tag |-> "persist_request",
       params |-> <<<<"id", "uint">>>>,
       steps |-> <<<<"id", "get", "id">>>>],
      \* lines 489-492
      [name |-> "PersistReply", shape |-> "PersistReply", check |-> "CHECK_IPC_ERROR", tag |-> "persist_reply",
       params |-> <<>>,
       steps |-> <<>>],
      \* lines 502-506
      [name |-> "IfPersistRequest", shape |-> "IfPersistRequest", check |-> "RETURN_ON_ASSERT", tag |-> "if_persist_request",
       params |-> <<<<"id", "uint">>>>,
       steps |-> <<<<"id", "get", "id">>>>],
      \* lines 516-520
      [name |-> "IfPersistReply", shape |-> "IfPersistReply", check |-> "CHECK_IPC_ERROR", tag |-> "if_persist_reply",
       params |-> <<<<"persist", "bool">>>>,
       steps |-> <<<<"persist", "value", "persist">>>>],
      \* lines 530-534
      [name |-> "ExistsRequest", shape |-> "ExistsRequest", check |-> "RETURN_ON_ASSERT", tag |-> "exists_request",
       params |-> <<<<"id", "uint">>>>,
       steps |-> <<<<"id", "get", "id">>>>],
      \* lines 544-548
      [name |-> "ExistsReply", shape |-> "ExistsReply", check |-> "CHECK_IPC_ERROR", tag |-> "exists_reply",
       params |-> <<<<"exists", "bool">>>>,
       steps |-> <<<<"exists", "value", "exists">>>>],
      \* lines 575-583
      [name |-> "DelDataRequest", shape |-> "DelDataRequest", check |-> "RETURN_ON_ASSERT", tag |-> "del_data_request",
       params |-> <<<<"ids", "uints">>, <<"force", "bool">>, <<"deep", "bool">>, <<"fastpath", "bool">>>>,
       steps |-> <<<<"ids", "get", "id">>, <<"force", "value", "force">>, <<"deep", "value", "deep">>, <<"fastpath", "value", "fastpath">>>>],
      \* lines 592-595
      [name |-> "DelDataReply", shape |-> "DelDataReply", check |-> "CHECK_IPC_ERROR", tag |-> "del_data_reply",
       params |-> <<>>,
       steps |-> <<>>],
      \* lines 604-607
      [name |-> "ClusterMetaRequest", shape |-> "ClusterMetaRequest", check |-> "RETURN_ON_ASSERT", tag |-> "cluster_meta",
       params |-> <<>>,
       steps |-> <<>>],
      \* lines 617-621
      [name |-> "ClusterMetaReply", shape |-> "ClusterMetaReply", check |-> "CHECK_IPC_ERROR", tag |-> "cluster_meta",
       params |-> <<<<"meta", "json">>>>,
       steps |-> <<<<"meta", "get", "meta">>>>],
      \* lines 630-633
      [name |-> "InstanceStatusRequest", shape |-> "InstanceStatusRequest", check |-> "RETURN_ON_ASSERT", tag |-> "instance_status_request",
       params |-> <<>>,
       steps |-> <<>>],
      \* lines 643-647
      [name |-> "InstanceStatusReply", shape |-> "InstanceStatusReply", check |-> "CHECK_IPC_ERROR", tag |-> "instance_status_reply",
       params |-> <<<<"meta", "json">>>>,
       steps |-> <<<<"meta", "get", "meta">>>>],
      \* lines 659-665
      [name |-> "PutNameRequest", shape |-> "PutNameRequest", check |-> "RETURN_ON_ASSERT", tag |-> "put_name_request",
       params |-> <<<<"object_id", "uint">>, <<"name", "string">>>>,
       steps |-> <<<<"object_id", "get", "object_id">>, <<"name", "get", "name">>>>],
      \* lines 674-677
      [name |-> "PutNameReply", shape |-> "PutNameReply", check |-> "CHECK_IPC_ERROR", tag |-> "put_name_reply",
       params |-> <<>>,
       steps |-> <<>>],
      \* lines 689-694
      [name |-> "GetNameRequest", shape |-> "GetNameRequest", check |-> "RETURN_ON_ASSERT", tag |-> "get_name_request",
       params |-> <<<<"name", "string">>, <<"wait", "bool">>>>,
       steps |-> <<<<"name", "get", "name">>, <<"wait", "get", "wait">>>>],
      \* lines 704-708
      [name |-> "GetNameReply", shape |-> "GetNameReply", check |-> "CHECK_IPC_ERROR", tag |-> "get_name_reply",
       params |-> <<<<"object_id", "uint">>>>,
       steps |-> <<<<"object_id", "get", "object_id">>>>],
      \* lines 718-722
      [name |-> "DropNameRequest", shape |-> "DropNameRequest", check |-> "RETURN_ON_ASSERT", tag |-> "drop_name_request",
       params |-> <<<<"name", "string">>>>,
       steps |-> <<<<"name", "get", "name">>>>],
      \* lines 731-734
      [name |-> "DropNameReply", shape |-> "DropNameReply", check |-> "CHECK_IPC_ERROR", tag |-> "drop_name_reply",
       params |-> <<>>,
       steps |-> <<>>],
      \* lines 751-762
      [name |-> "MigrateObjectRequest", shape |-> "MigrateObjectRequest", check |-> "RETURN_ON_ASSERT", tag |-> "migrate_object_request",
       params |-> <<<<"object_id", "uint">>, <<"local", "bool">>, <<"is_stream", "bool">>, <<"peer", "string">>, <<"peer_rpc_endpoint", "string">>>>,
       steps |-> <<<<"object_id", "get", "object_id">>, <<"local", "get", "local">>, <<"is_stream", "get", "is_stream">>, <<"peer", "get", "peer">>, <<"peer_rpc_endpoint", "get", "peer_rpc_endpoint">>>>],
      \* lines 772-776
      [name |-> "MigrateObjectReply", shape |-> "MigrateObjectReply", check |-> "CHECK_IPC_ERROR", tag |-> "migrate_object_reply",
       params |-> <<<<"object_id", "uint">>>>,
       steps |-> <<<<"object_id", "get", "object_id">>>>],
      \* lines 786-790
      [name |-> "CreateStreamRequest", shape |-> "CreateStreamRequest", check |-> "RETURN_ON_ASSERT", tag |-> "create_stream_request",
       params |-> <<<<"object_id", "uint">>>>,
       steps |-> <<<<"object_id", "get", "object_id">>>>],
      \* lines 799-802
      [name |-> "CreateStreamReply", shape |-> "CreateStreamReply", check |-> "CHECK_IPC_ERROR", tag |-> "create_stream_reply",
       params |-> <<>>,
       steps |-> <<>>],
      \* lines 814-820
      [name |-> "OpenStreamRequest", shape |-> "OpenStreamRequest", check |-> "RETURN_ON_ASSERT", tag |-> "open_stream_request",
       params |-> <<<<"object_id", "uint">>, <<"mode", "uint">>>>,
       steps |-> <<<<"object_id", "get", "object_id">>, <<"mode", "get", "mode">>>>],
      \* lines 829-832
      [name |-> "OpenStreamReply", shape |-> "OpenStreamReply", check |-> "CHECK_IPC_ERROR", tag |-> "open_stream_reply",
       params |-> <<>>,
       steps |-> <<>>],
      \* lines 844-850
      [name |-> "GetNextStreamChunkRequest", shape |-> "GetNextStreamChunkRequest", check |-> "RETURN_ON_ASSERT", tag |-> "get_next_stream_chunk_request",
       params |-> <<<<"stream_id", "uint">>, <<"size", "uint">>>>,
       steps |-> <<<<"stream_id", "get", "id">>, <<"size", "get", "size">>>>],
      \* lines 863-867
      [name |-> "GetNextStreamChunkReply", shape |-> "GetNextStreamChunkReply", check |-> "CHECK_IPC_ERROR", tag |-> "get_next_stream_chunk_reply",
       params |-> <<<<"object", "payload">>>>,
       steps |-> <<<<"object", "FromJSON", "buffer">>>>],
      \* lines 879-885
      [name |-> "PushNextStreamChunkRequest", shape |-> "PushNextStreamChunkRequest", check |-> "RETURN_ON_ASSERT", tag |-> "push_next_stream_chunk_request",
       params |-> <<<<"stream_id", "uint">>, <<"chunk", "uint">>>>,
       steps |-> <<<<"stream_id", "get", "id">>, <<"chunk", "get", "chunk">>>>],
      \* lines 893-896
      [name |-> "PushNextStreamChunkReply", shape |-> "PushNextStreamChunkReply", check |-> "CHECK_IPC_ERROR", tag |-> "push_next_stream_chunk_reply",
       params |-> <<>>,
       steps |-> <<>>],
      \* lines 907-911
      [name |-> "PullNextStreamChunkRequest", shape |-> "PullNextStreamChunkRequest", check |-> "RETURN_ON_ASSERT", tag |-> "pull_next_stream_chunk_request",
       params |-> <<<<"stream_id", "uint">>>>,
       steps |-> <<<<"stream_id", "get", "id">>>>],
      \* lines 921-925
      [name |-> "PullNextStreamChunkReply", shape |-> "PullNextStreamChunkReply", check |-> "CHECK_IPC_ERROR", tag |-> "pull_next_stream_chunk_reply",
       params |-> <<<<"chunk", "uint">>>>,
       steps |-> <<<<"chunk", "get", "chunk">>>>],
      \* lines 937-943
      [name |-> "StopStreamRequest", shape |-> "StopStreamRequest", check |-> "RETURN_ON_ASSERT", tag |-> "stop_stream_request",
       params |-> <<<<"stream_id", "uint">>, <<"failed", "bool">>>>,
       steps |-> <<<<"stream_id", "get", "id">>, <<"failed", "get", "failed">>>>],
      \* lines 952-955
      [name |-> "StopStreamReply", shape |-> "StopStreamReply", check |-> "CHECK_IPC_ERROR", tag |-> "stop_stream_reply",
       params |-> <<>>,
       steps |-> <<>>],
      \* lines 975-981
      [name |-> "ShallowCopyRequest", shape |-> "ShallowCopyRequest", check |-> "RETURN_ON_ASSERT", tag |-> "shallow_copy_request",
       params |-> <<<<"id", "uint">>, <<"extra_metadata", "json">>>>,
       steps |-> <<<<"id", "get", "id">>, <<"extra_metadata", "value", "extra">>>>],
      \* lines 991-995
      [name |-> "ShallowCopyReply", shape |-> "ShallowCopyReply", check |-> "CHECK_IPC_ERROR", tag |-> "shallow_copy_reply",
       params |-> <<<<"target_id", "uint">>>>,
       steps |-> <<<<"target_id", "get", "target_id">>>>],
      \* lines 1009-1017
      [name |-> "DeepCopyRequest", shape |-> "DeepCopyRequest", check |-> "RETURN_ON_ASSERT", tag |-> "deep_copy_request",
       params |-> <<<<"object_id", "uint">>, <<"peer", "string">>, <<"peer_rpc_endpoint", "string">>>>,
       steps |-> <<<<"object_id", "get", "object_id">>, <<"peer", "get", "peer">>, <<"peer_rpc_endpoint", "get", "peer_rpc_endpoint">>>>],
      \* lines 1027-1031
      [name |-> "DeepCopyReply", shape |-> "DeepCopyReply", check |-> "CHECK_IPC_ERROR", tag |-> "deep_copy_reply",
       params |-> <<<<"object_id", "uint">>>>,
       steps |-> <<<<"object_id", "get", "object_id">>>>],
      \* lines 1041-1045
      [name |-> "MakeArenaRequest", shape |-> "MakeArenaRequest", check |-> "RETURN_ON_ASSERT", tag |-> "make_arena_request",
       params |-> <<<<"size", "uint">>>>,
       steps |-> <<<<"size", "get", "size">>>>],
      \* lines 1058-1065
      [name |-> "MakeArenaReply", shape |-> "MakeArenaReply", check |-> "CHECK_IPC_ERROR", tag |-> "make_arena_reply",
       params |-> <<<<"fd", "uint">>, <<"size", "uint">>, <<"base", "uint">>>>,
       steps |-> <<<<"fd", "get", "fd">>, <<"size", "get", "size">>, <<"base", "get", "base">>>>],
      \* lines 1079-1087
      [name |-> "FinalizeArenaRequest", shape |-> "FinalizeArenaRequest", check |-> "RETURN_ON_ASSERT", tag |-> "finalize_arena_request",
       params |-> <<<<"fd", "uint">>, <<"offsets", "uints">>, <<"sizes", "uints">>>>,
       steps |-> <<<<"fd", "get", "fd">>, <<"offsets", "get", "offsets">>, <<"sizes", "get", "sizes">>>>],
      \* lines 1095-1098
      [name |-> "FinalizeArenaReply", shape |-> "FinalizeArenaReply", check |-> "CHECK_IPC_ERROR", tag |-> "finalize_arena_reply",
       params |-> <<>>,
       steps |-> <<>>],
      \* lines 1107-1110
      [name |-> "ClearRequest", shape |-> "ClearRequest", check |-> "RETURN_ON_ASSERT", tag |-> "clear_request",
       params |-> <<>>,
       steps |-> <<>>],
      \* lines 1118-1121
      [name |-> "ClearReply", shape |-> "ClearReply", check |-> "CHECK_IPC_ERROR", tag |-> "clear_reply",
       params |-> <<>>,
       steps |-> <<>>],
      \* lines 1130-1134
      [name |-> "DebugRequest", shape |-> "DebugRequest", check |-> "RETURN_ON_ASSERT", tag |-> "debug_command",
       params |-> <<<<"debug", "json">>>>,
       steps |-> <<<<"debug", "get", "debug">>>>],
      \* lines 1143-1147
      [name |-> "DebugReply", shape |-> "DebugReply", check |-> "CHECK_IPC_ERROR", tag |-> "debug_reply",
       params |-> <<<<"result", "json">>>>,
       steps |-> <<<<"result", "get", "result">>>>],
      \* lines 1157-1162
      [name |-> "ModifyReferenceCountRequest", shape |-> "ModifyReferenceCountRequest", check |-> "RETURN_ON_ASSERT", tag |-> "modify_reference_count_request",
       params |-> <<<<"eid", "string">>, <<"changes", "uint">>>>,
       steps |-> <<<<"eid", "get", "external_id">>, <<"changes", "get", "changes">>>>],
      \* lines 1170-1173
      [name |-> "ModifyReferenceCountReply", shape |-> "ModifyReferenceCountReply", check |-> "CHECK_IPC_ERROR", tag |-> "modify_reference_count_reply",
       params |-> <<>>,
       steps |-> <<>>]
    >>

WriterRow(name) == WriteTable[CHOOSE i \in DOMAIN WriteTable : WriteTable[i].name = name]
ReaderRow(name) == ReadTable[CHOOSE i \in DOMAIN ReadTable : ReadTable[i].name = name]
TypeOf(params, p) == params[CHOOSE i \in DOMAIN params : params[i][1] = p][2]

\* root[key] = value on a json object
JsonSet(root, key, value) ==
    [k \in DOMAIN root \cup {key} |-> IF k = key THEN value ELSE root[k]]

\* Status: a code and a message; code 0 is OK
StatusCode == [kOK |-> 0, kInvalid |-> 1, kObjectNotExists |-> 2]
StatusOf(code, message) == [code |-> code, message |-> message]
StatusOK == StatusOf(StatusCode.kOK, "")
ok(st) == st.code = StatusCode.kOK
\* what RETURN_ON_ASSERT returns when its condition is false
AssertionFailed == StatusOf(StatusCode.kInvalid, "assertion failed")
\* the call never returns a Status: the process aborts or an exception unwinds
NoReturn == StatusOf(-1, "no return")
StatusToJSON(st) == [code |-> st.code, message |-> st.message]

\* object ids as keys of a json object, and back
CodecIDs == {1, 2}
ObjectIDToString(id) == IF id = 1 THEN "o0000000000000001" ELSE "o0000000000000002"
ObjectIDFromString(s) == CHOOSE id \in CodecIDs : ObjectIDToString(id) = s

\* the wire form of a Payload, and the Payload a client rebuilds from it
ToJSON(object) ==
    [object_id |-> object.object_id, data_size |-> object.data_size,
     pointer |-> object.pointer, fd |-> object.store_fd, map_size |-> object.map_size,
     map_offset |-> object.data_offset, external_id |-> object.external_id,
     external_size |-> object.external_size]
FromJSON(tree) ==
    [object_id |-> tree.object_id, external_id |-> tree.external_id, store_fd |-> tree.fd,
     arena_fd |-> PoolArenaFd, data_offset |-> tree.map_offset,
     data_size |-> tree.data_size, external_size |-> tree.external_size,
     map_size |-> tree.map_size, pointer |-> tree.pointer]

vineyard_version == "0.1.0"


\* ------------------------------------------------ values of the codec's fields
\* json trees: objects of up to two metadata items keyed by object id
JsonTrees ==
    UNION {[S -> {[typename |-> "a"], [typename |-> "b"]}] :
              S \in SUBSET {ObjectIDToString(id) : id \in CodecIDs}}
CodecPayloads ==
    {PoolPayload(GenerateBlobID(PoolBase), DefaultExternalID, 1, PoolBase, PoolFd, 4, 0, 0),
     PoolPayload(GenerateBlobID(PoolBase + 2), "x", 2, PoolBase + 2, PoolFd, 4, 2, 1)}

\* two values of each type; a container type lists its elements in the order
\* its iteration yields them (ascending for std::set)
Sample(type) ==
    CASE type = "bool" -> <<FALSE, TRUE>>
      [] type = "uint" -> <<1, 2>>
      [] type = "string" -> <<"a", "b">>
      [] type = "json" -> <<[k \in {ObjectIDToString(1)} |-> [typename |-> "a"]],
                            [k \in {ObjectIDToString(1), ObjectIDToString(2)} |-> [typename |-> "b"]]>>
      [] type = "map" -> <<[k \in {1} |-> [typename |-> "a"]],
                           [k \in CodecIDs |-> [typename |-> "b"]]>>
      [] type \in {"uints", "idset", "idbag"} -> <<<<1>>, <<1, 2>>>>
      [] type \in {"strings", "eidset"} -> <<<<"a">>, <<"a", "b">>>>
      [] type = "payload" -> <<CHOOSE p \in CodecPayloads : p.data_size = 1,
                               CHOOSE p \in CodecPayloads : p.data_size = 2>>
      [] type = "payloads" -> <<<<CHOOSE p \in CodecPayloads : p.data_size = 1>>,
                                <<CHOOSE p \in CodecPayloads : p.data_size = 2,
                                  CHOOSE p \in CodecPayloads : p.data_size = 1>>>>

Values(type) ==
    CASE type \in {"bool", "uint", "string", "payload"} ->
             {Sample(type)[1], Sample(type)[2]}
      [] type = "json" -> JsonTrees
      [] type = "uints" -> SeqsUpTo({1, 2}, MaxBatch)
      [] type = "idset" -> {<<>>, <<1>>, <<2>>, <<1, 2>>}
      [] type = "idbag" -> {<<>>, <<1>>, <<2>>, <<1, 2>>, <<2, 1>>}
      [] type = "eidset" -> {<<>>, <<"a">>, <<"b">>, <<"a", "b">>}
      [] type = "payloads" -> SeqsUpTo(CodecPayloads, MaxBatch)
      [] type = "status" -> {StatusOf(code, message) :
                                code \in {StatusCode.kInvalid, StatusCode.kObjectNotExists},
                                message \in {"", "m"}}

\* a default-constructed output argument, and one that holds what an earlier
\* call left in it
FreshValue(type) ==
    CASE type = "bool" -> FALSE
      [] type = "uint" -> 0
      [] type = "string" -> ""
      [] type \in {"json", "map"} -> EmptyMap
      [] type \in {"uints", "strings", "payloads"} -> <<>>
      [] type = "payload" -> MakeEmpty
UsedValue(type) ==
    CASE type = "bool" -> TRUE
      [] type = "uint" -> 7
      [] type = "string" -> "old"
      [] type = "json" -> [k \in {"old"} |-> [typename |-> "old"]]
      [] type = "map" -> [k \in {1} |-> [typename |-> "old"]]
      [] type = "uints" -> <<7>>
      [] type = "strings" -> <<"old">>
      [] type = "payload" -> ArenaPayload(GenerateBlobID(ArenaRegion), 4, ArenaRegion,
                                          FirstArenaFd, 8, 0)
      [] type = "payloads" -> <<ArenaPayload(GenerateBlobID(ArenaRegion), 4, ArenaRegion,
                                             FirstArenaFd, 8, 0)>>

\* the argument lists a Write function with these parameters is called with
RECURSIVE Bindings(_)
Bindings(params) ==
    IF params = <<>> THEN {EmptyMap}
    ELSE {JsonSet(b, Head(params)[1], v) :
             b \in Bindings(Tail(params)), v \in Values(Head(params)[2])}
FreshOutputs(reader) ==
    LET params == ReaderRow(reader).params
    IN [p \in {params[i][1] : i \in DOMAIN params} |-> FreshValue(TypeOf(params, p))]
UsedOutputs(reader) ==
    LET params == ReaderRow(reader).params
    IN [p \in {params[i][1] : i \in DOMAIN params} |-> UsedValue(TypeOf(params, p))]

\* ------------------------------------------------------------ Write functions
\* root[std::to_string(idx++)] = item, for the items in iteration order
ItemKey_FromOne(idx) == ToString(idx + 1)
ItemKey(idx) == ToString(idx)
RECURSIVE WriteItems(_, _, _)
WriteItems(root, items, idx) ==
    IF idx = Len(items) THEN root
    ELSE WriteItems(JsonSet(root, ItemKey(idx), items[idx + 1]), items, idx + 1)

RECURSIVE WriteFields(_, _, _)
WriteFields(root, fields, args) ==
    IF fields = <<>> THEN root
    ELSE LET key == Head(fields)[1]
             how == Head(fields)[2]
             arg == Head(fields)[3]
             next ==
               CASE how = "copy" -> JsonSet(root, key, args[arg])
                 [] how = "wrap" -> JsonSet(root, key, <<args[arg]>>)
                 [] how = "version" -> JsonSet(root, key, vineyard_version)
                 [] how = "ToJSON" -> JsonSet(root, key, ToJSON(args[arg]))
                 [] how = "size" -> JsonSet(root, key, Len(args[arg]))
                 [] how = "items" -> WriteItems(root, args[arg], 0)
                 [] how = "itemsToJSON" ->
                      WriteItems(root, [i \in Indices(args[arg]) |-> ToJSON(args[arg][i])], 0)
         IN WriteFields(next, Tail(fields), args)

WriteErrorReply(status) == StatusToJSON(status)

\* the tree the Write function `writer` hands to encode_msg
Write(writer, args) ==
    IF writer = "ErrorReply" THEN WriteErrorReply(args.status)
    ELSE WriteFields([k \in {"type"} |-> WriterRow(writer).tag],
                     WriterRow(writer).fields, args)


\* ------------------------------------------------------------- Read functions
\* root[key] on a const json that lacks the key is undefined behaviour: the
\* call aborts, or reads on with some value.  `ub` is the outcome: 0 aborts,
\* 1 and 2 read on with Sample(type)[ub] (for the tag: 1 differs, 2 matches).
UndefinedOutcomes == 0..2

\* root.value(key, default)
JsonValue(root, key, default) == IF key \in DOMAIN root THEN root[key] ELSE default

\* root["type"] == type
TagMatches_Always(root, type) == TRUE
TagMatches(root, type) == root["type"] = type

\* RETURN_ON_ASSERT(root["type"] == type)
AssertType(root, type, ub) ==
    IF "type" \in DOMAIN root
    THEN IF TagMatches(root, type) THEN StatusOK ELSE AssertionFailed
    ELSE CASE ub = 0 -> NoReturn
           [] ub = 1 -> AssertionFailed
           [] ub = 2 -> StatusOK

\* the status CHECK_IPC_ERROR returns, OK when the decoder goes on
CHECK_IPC_ERROR_TagFirst(root, type, ub) ==
    LET st == StatusOf(JsonValue(root, "code", 0), JsonValue(root, "message", ""))
        tag == AssertType(root, type, ub)
    IN IF ~ok(tag) THEN tag
       ELSE IF "code" \in DOMAIN root /\ ~ok(st) THEN st
       ELSE StatusOK
CHECK_IPC_ERROR(root, type, ub) ==
    LET st == StatusOf(JsonValue(root, "code", 0), JsonValue(root, "message", ""))
    IN IF "code" \in DOMAIN root /\ ~ok(st) THEN st
       ELSE AssertType(root, type, ub)

\* the default of each root.value(key, default)
DefaultValue(type) ==
    CASE type = "bool" -> FALSE
      [] type = "string" -> "0.0.0"
      [] type = "json" -> EmptyMap

\* content.emplace(ObjectIDFromString(kv.key()), kv.value()) for every item
RECURSIVE EmplaceItems(_, _)
EmplaceItems(content, group) ==
    IF DOMAIN group = {} THEN content
    ELSE LET key == CHOOSE k \in DOMAIN group : TRUE
         IN EmplaceItems(Emplace(content, ObjectIDFromString(key), group[key]),
                         [k \in DOMAIN group \ {key} |-> group[k]])

\* ReadGetDataReply(json&): content_group.size() != 1
NotOneItem_Empty(content_group) == Cardinality(DOMAIN content_group) = 0
NotOneItem(content_group) == Cardinality(DOMAIN content_group) # 1

RECURSIVE ReadSteps(_, _, _, _, _)
ReadSteps(root, steps, params, out, ub) ==
    IF steps = <<>> THEN [status |-> StatusOK, out |-> out]
    ELSE LET p == Head(steps)[1]
             how == Head(steps)[2]
             key == Head(steps)[3]
             type == TypeOf(params, p)
             undefined ==
               CASE how = "value" -> FALSE
                 [] how \in {"push_back", "emplace_back"} ->
                      \/ key \notin DOMAIN root
                      \/ \E i \in 0..(root[key] - 1) : ToString(i) \notin DOMAIN root
                 [] OTHER -> key \notin DOMAIN root
             value ==
               CASE how = "get" -> root[key]
                 [] how = "value" -> JsonValue(root, key, DefaultValue(type))
                 [] how = "FromJSON" -> FromJSON(root[key])
                 [] how = "push_back" ->
                      out[p] \o [i \in 1..root[key] |-> root[ToString(i - 1)]]
                 [] how = "emplace_back" ->
                      out[p] \o [i \in 1..root[key] |-> FromJSON(root[ToString(i - 1)])]
                 [] how = "single" -> root[key][CHOOSE k \in DOMAIN root[key] : TRUE]
                 [] how = "emplace" -> EmplaceItems(out[p], root[key])
         IN IF undefined
            THEN IF ub = 0 THEN [status |-> NoReturn, out |-> out]
                 ELSE ReadSteps(root, Tail(steps), params,
                                [out EXCEPT ![p] = Sample(type)[ub]], ub)
            ELSE IF how = "single" /\ NotOneItem(root[key])
            THEN [status |-> StatusOf(StatusCode.kObjectNotExists, "failed to read get_data reply"),
                  out |-> out]
            ELSE ReadSteps(root, Tail(steps), params, [out EXCEPT ![p] = value], ub)

\* the status the Read function `reader` returns and what its output arguments
\* hold afterwards
Read(reader, root, out, ub) ==
    LET r == ReaderRow(reader)
        checked == IF r.check = "CHECK_IPC_ERROR" THEN CHECK_IPC_ERROR(root, r.tag, ub)
                   ELSE AssertType(root, r.tag, ub)
    IN IF ~ok(checked) THEN [status |-> checked, out |-> out]
       ELSE ReadSteps(root, r.steps, r.params, out, ub)

\* ------------------------------------------------- the codec as a state machine
InitCodec ==
    /\ objects_ = EmptyMap /\ externals_ = EmptyMap /\ arenas_ = EmptyMap
    /\ spans = {} /\ allocated_ = 0 /\ footprint_limit_ = 0 /\ heap = EmptyMap
    /\ pool = [ready |-> FALSE, size |-> 0]
    /\ next_fd = FirstArenaFd /\ madvised = {} /\ mmap_records = EmptyMap
    /\ hung = FALSE /\ made = {} /\ finalizeOk = [fd \in Fds |-> 0]
    /\ threads = [t \in Threads |-> IdleThread] /\ freeCalls = EmptyMap
    /\ lastOp = [op |-> "idle", status |-> StatusOK]

\* one side calls a Write function
CodecWrite(writer, args) ==
    /\ lastOp.op = "idle"
    /\ lastOp' = [op |-> "Write", status |-> StatusOK, writer |-> writer, args |-> args,
                  msg |-> Write(writer, args), forged |-> FALSE]
    /\ StoreUnchanged /\ UNCHANGED <<madvised, threads, freeCalls>>

\* a peer that builds its records itself sends the same fields with a code,
\* and a message or none, beside them
CodecForge(code, message) ==
    /\ lastOp.op = "Write" /\ ~lastOp.forged /\ lastOp.writer # "ErrorReply"
    /\ lastOp' = [lastOp EXCEPT
                    !.msg = IF message = "none" THEN JsonSet(@, "code", code)
                            ELSE JsonSet(JsonSet(@, "code", code), "message", message),
                    !.forged = TRUE]
    /\ StoreUnchanged /\ UNCHANGED <<madvised, threads, freeCalls>>

\* a peer that builds its records itself leaves out fields it takes to be
\* optional
OmittedKeys ==
    {{"external_id", "external_size"}, {"external_id"}, {"version"},
     {"sync_remote", "wait"}, {"extra"}}
CodecOmit(keys) ==
    /\ lastOp.op = "Write" /\ ~lastOp.forged /\ keys \subseteq DOMAIN lastOp.msg
    /\ lastOp' = [lastOp EXCEPT
                    !.msg = [k \in DOMAIN lastOp.msg \ keys |-> lastOp.msg[k]],
                    !.forged = TRUE]
    /\ StoreUnchanged /\ UNCHANGED <<madvised, threads, freeCalls>>

\* the other side calls a Read function on the record
CodecRead(reader, out, ub) ==
    /\ lastOp.op = "Write"
    /\ LET result == Read(reader, lastOp.msg, out, ub)
       IN lastOp' = [op |-> "Read", status |-> result.status, writer |-> lastOp.writer,
                     args |-> lastOp.args, msg |-> lastOp.msg, forged |-> lastOp.forged,
                     reader |-> reader, called |-> out, out |-> result.out]
    /\ StoreUnchanged /\ UNCHANGED <<madvised, threads, freeCalls>>

\* enum class CommandType
CommandType ==
    [DebugCommand |-> -1,
     NullCommand |-> 0,
     ExitRequest |-> 1,
     ExitReply |-> 2,
     RegisterRequest |-> 3,
     RegisterReply |-> 4,
     GetDataRequest |-> 5,
     GetDataReply |-> 6,
     PersistRequest |-> 8,
     ExistsRequest |-> 9,
     DelDataRequest |-> 10,
     ClusterMetaRequest |-> 11,
     ListDataRequest |-> 12,
     CreateBufferRequest |-> 13,
     GetBuffersRequest |-> 14,
     CreateDataRequest |-> 15,
     PutNameRequest |-> 16,
     GetNameRequest |-> 17,
     DropNameRequest |-> 18,
     CreateStreamRequest |-> 19,
     GetNextStreamChunkRequest |-> 20,
     PullNextStreamChunkRequest |-> 21,
     StopStreamRequest |-> 22,
     IfPersistRequest |-> 25,
     InstanceStatusRequest |-> 26,
     ShallowCopyRequest |-> 27,
     OpenStreamRequest |-> 28,
     MigrateObjectRequest |-> 29,
     CreateRemoteBufferRequest |-> 30,
     GetRemoteBuffersRequest |-> 31,
     DropBufferRequest |-> 32,
     MakeArenaRequest |-> 33,
     FinalizeArenaRequest |-> 34,
     DeepCopyRequest |-> 35,
     ClearRequest |-> 36,
     PushNextStreamChunkRequest |-> 37,
     GetBuffersByExternalRequest |-> 38,
     ModifyReferenceCountRequest |-> 39,
     ModifyReferenceCountReply |-> 40]

\* the chain of comparisons of ParseCommandType, in its order: the string
\* compared with, the enumerator returned
CommandTags ==
    <<<<"exit_request", "ExitRequest">>,
     <<"exit_reply", "ExitReply">>,
     <<"register_request", "RegisterRequest">>,
     <<"register_reply", "RegisterReply">>,
     <<"get_data_request", "GetDataRequest">>,
     <<"get_data_reply", "GetDataReply">>,
     <<"create_data_request", "CreateDataRequest">>,
     <<"persist_request", "PersistRequest">>,
     <<"exists_request", "ExistsRequest">>,
     <<"del_data_request", "DelDataRequest">>,
     <<"cluster_meta", "ClusterMetaRequest">>,
     <<"list_data_request", "ListDataRequest">>,
     <<"create_buffer_request", "CreateBufferRequest">>,
     <<"get_buffers_request", "GetBuffersRequest">>,
     <<"create_stream_request", "CreateStreamRequest">>,
     <<"get_next_stream_chunk_request", "GetNextStreamChunkRequest">>,
     <<"push_next_stream_chunk_request", "PushNextStreamChunkRequest">>,
     <<"pull_next_stream_chunk_request", "PullNextStreamChunkRequest">>,
     <<"stop_stream_request", "StopStreamRequest">>,
     <<"put_name_request", "PutNameRequest">>,
     <<"get_name_request", "GetNameRequest">>,
     <<"drop_name_request", "DropNameRequest">>,
     <<"if_persist_request", "IfPersistRequest">>,
     <<"instance_status_request", "InstanceStatusRequest">>,
     <<"shallow_copy_request", "ShallowCopyRequest">>,
     <<"deep_copy_request", "DeepCopyRequest">>,
     <<"open_stream_request", "OpenStreamRequest">>,
     <<"migrate_object_request", "MigrateObjectRequest">>,
     <<"create_remote_buffer_request", "CreateRemoteBufferRequest">>,
     <<"get_remote_buffers_request", "GetRemoteBuffersRequest">>,
     <<"drop_buffer_request", "DropBufferRequest">>,
     <<"make_arena_request", "MakeArenaRequest">>,
     <<"finalize_arena_request", "FinalizeArenaRequest">>,
     <<"clear_request", "ClearRequest">>,
     <<"debug_command", "DebugCommand">>,
     <<"get_buffers_by_external_request", "GetBuffersByExternalRequest">>,
     <<"modify_reference_count_request", "ModifyReferenceCountRequest">>,
     <<"modify_reference_count_reply", "ModifyReferenceCountReply">>>>

\* ParseCommandType: the enumerator of the first comparison that matches,
\* NullCommand when none does
ParseCommandType_NoDebug(str_type) ==
    LET hits == {i \in DOMAIN CommandTags : CommandTags[i][1] = str_type}
        first == CHOOSE i \in hits : \A j \in hits : i <= j
    IN IF hits = {} \/ CommandType[CommandTags[first][2]] < 0
       THEN CommandType.NullCommand
       ELSE CommandType[CommandTags[first][2]]
ParseCommandType(str_type) ==
    LET hits == {i \in DOMAIN CommandTags : CommandTags[i][1] = str_type}
        first == CHOOSE i \in hits : \A j \in hits : i <= j
    IN IF hits = {} THEN CommandType.NullCommand
       ELSE CommandType[CommandTags[first][2]]

\* strings no Write function writes as a type tag
OtherStrings == {"", "exit", "EXIT_REQUEST", "exit_reply", "null_command", "request"}

\* the receiver of a record looks its type tag up; a caller may pass any
\* other string
CodecParse(str_type) ==
    /\ lastOp.op = "Write" /\ ~lastOp.forged
    /\ lastOp' = [op |-> "Parse", status |-> StatusOK, writer |-> lastOp.writer,
                  tagged |-> ("type" \in DOMAIN lastOp.msg /\ lastOp.msg["type"] = str_type),
                  str_type |-> str_type, command |-> ParseCommandType(str_type)]
    /\ StoreUnchanged /\ UNCHANGED <<madvised, threads, freeCalls>>

NextCodec ==
    \/ \E i \in DOMAIN WriteTable : \E args \in Bindings(WriteTable[i].params) :
          CodecWrite(WriteTable[i].name, args)
    \/ \E code \in {StatusCode[k] : k \in DOMAIN StatusCode} :
          \E message \in {"none", "m"} : CodecForge(code, message)
    \/ \E keys \in OmittedKeys : CodecOmit(keys)
    \/ \E str_type \in {WriteTable[i].tag : i \in DOMAIN WriteTable} \cup OtherStrings :
          CodecParse(str_type)
    \/ \E i \in DOMAIN ReadTable :
          \E out \in {FreshOutputs(ReadTable[i].name), UsedOutputs(ReadTable[i].name)} :
             \E ub \in UndefinedOutcomes : CodecRead(ReadTable[i].name, out, ub)

SpecCodec == InitCodec /\ [][NextCodec]_vars


\* ------------------------------------------------------------- codec claims
\* a Read function is called on the record the Write function of its own shape
\* produced
RoundTrip ==
    /\ lastOp.op = "Read" /\ ~lastOp.forged
    /\ ReaderRow(lastOp.reader).shape = WriterRow(lastOp.writer).shape

\* what the caller of the Write function passed for the output argument p of
\* the Read function: the argument of that name; the one id of the single-id
\* overloads, as a list; the version the encoder writes by itself; the empty
\* object when no extra metadata is passed; the items by their object ids for
\* the map form of ReadGetDataReply
OriginalInput(p) ==
    LET args == lastOp.args
    IN CASE lastOp.reader = "GetDataReply(map)" ->
              [id \in {i \in CodecIDs : ObjectIDToString(i) \in DOMAIN args.content} |->
                  args.content[ObjectIDToString(id)]]
         [] lastOp.reader # "GetDataReply(map)" /\ p \in DOMAIN args -> args[p]
         [] p = "ids" /\ "id" \in DOMAIN args -> <<args.id>>
         [] p = "version" -> vineyard_version
         [] p = "extra_metadata" /\ p \notin DOMAIN args -> EmptyMap

DecodedAsWritten ==
    /\ ok(lastOp.status)
    /\ \A p \in DOMAIN lastOp.out : lastOp.out[p] = OriginalInput(p)

CarriesNoError ==
    "code" \in DOMAIN lastOp.msg => lastOp.msg["code"] = StatusCode.kOK

\* C29: a request or reply decoder called on a record that carries no error
\* and whose type tag is another one than the decoder's returns an error and
\* has read no other field: every output argument holds what it held at the
\* call.
C29_MismatchedTagRejected ==
    (/\ lastOp.op = "Read" /\ CarriesNoError
     /\ "type" \in DOMAIN lastOp.msg
     /\ lastOp.msg["type"] # ReaderRow(lastOp.reader).tag)
       => /\ ~ok(lastOp.status) /\ lastOp.status # NoReturn
          /\ lastOp.out = lastOp.called

C29_Witness ==
    /\ lastOp.op = "Read" /\ ~lastOp.forged
    /\ lastOp.reader = "FinalizeArenaRequest" /\ lastOp.writer = "MakeArenaRequest"
    /\ lastOp.called = UsedOutputs(lastOp.reader)
    /\ lastOp.status = AssertionFailed /\ lastOp.out = lastOp.called

\* C30: a reply decoder looks for a structured error before it validates the
\* tag.  On a record whose code is not OK it returns that code with the
\* record's message (the empty message when there is none), whatever the type
\* tag is and also when there is none, and leaves its outputs as they were; on
\* a record without a code or with the OK code it validates the tag: another
\* tag than its own is the assertion failure with the outputs as they were,
\* and its own tag is never that failure.
C30_ErrorBeforeTag ==
    (lastOp.op = "Read" /\ ReaderRow(lastOp.reader).check = "CHECK_IPC_ERROR") =>
        IF ~CarriesNoError
        THEN /\ lastOp.status = StatusOf(lastOp.msg["code"],
                                         JsonValue(lastOp.msg, "message", ""))
             /\ lastOp.out = lastOp.called
        ELSE "type" \in DOMAIN lastOp.msg =>
               IF lastOp.msg["type"] # ReaderRow(lastOp.reader).tag
               THEN lastOp.status = AssertionFailed /\ lastOp.out = lastOp.called
               ELSE lastOp.status # AssertionFailed

C30_Witness ==
    /\ lastOp.op = "Read" /\ lastOp.reader = "DropBufferReply"
    /\ lastOp.writer = "ErrorReply" /\ "type" \notin DOMAIN lastOp.msg
    /\ lastOp.status = lastOp.args.status
    /\ lastOp.status.code = StatusCode.kObjectNotExists


\* C31: external_id and external_size are optional in a create-buffer
\* request: ReadCreateBufferRequest called on a record that has the
\* create_buffer_request tag and a size but neither external_id nor
\* external_size returns OK.
C31_ExternalFieldsOptional ==
    (/\ lastOp.op = "Read" /\ lastOp.reader = "CreateBufferRequest"
     /\ "type" \in DOMAIN lastOp.msg /\ lastOp.msg["type"] = "create_buffer_request"
     /\ "size" \in DOMAIN lastOp.msg /\ "code" \notin DOMAIN lastOp.msg
     /\ "external_id" \notin DOMAIN lastOp.msg
     /\ "external_size" \notin DOMAIN lastOp.msg)
       => ok(lastOp.status)


\* ------------------------------------------------- store claims, continued
\* C32: Delete(id) of a live arena-backed blob returns OK and removes the blob
\* from the main map, whatever was deleted before it; in particular it does
\* not return the Invalid internal-state error after its neighbour in spans
\* has been deleted.
C32_ArenaBlobDeleteSucceeds ==
    [][(/\ lastOp'.op = "Delete"
        /\ lastOp'.id \in DOMAIN objects_
        /\ ~Sentinel(lastOp'.id)
        /\ ~FromPool(objects_[lastOp'.id]))
          => /\ lastOp'.status = "OK"
             /\ lastOp'.id \notin DOMAIN objects_']_vars


\* C33: a successful Create(size > 0) leaves its blob registered also when it
\* interleaves with a Delete of another blob: once no call is in flight,
\* every block the allocator handed to a Create and no Delete has freed is
\* in the main map under the id derived from its address, with the pointer
\* and the size of that Create.
C33_CreatedBlobStaysRegistered ==
    (\A t \in Threads : threads[t].pc = "idle") =>
        \A pointer \in DOMAIN heap :
           /\ GenerateBlobID(pointer) \in DOMAIN objects_
           /\ objects_[GenerateBlobID(pointer)].pointer = pointer
           /\ objects_[GenerateBlobID(pointer)].data_size = heap[pointer]


\* C34: Delete(id) of one blob never unbinds the external id of a different
\* live blob: every external id that resolved to another live blob before
\* the Delete still resolves to that blob after it.
C34_DeleteKeepsOtherExternals ==
    [][(lastOp'.op = "Delete" /\ lastOp'.status = "OK")
          => \A external_id \in DOMAIN externals_ :
                LET bound == externals_[external_id].object_id
                IN (/\ bound # lastOp'.id
                    /\ bound \in DOMAIN objects_
                    /\ bound \in DOMAIN objects_')
                      => /\ external_id \in DOMAIN externals_'
                         /\ externals_'[external_id].object_id = bound]_vars


\* C35: a FinalizeArena call that fails changes nothing, and a call on an
\* unknown fd or with offsets and sizes of different lengths is such a call:
\* the main map, the external map, spans, the open-arena table, the mmap
\* records and the footprint are as before, so the open arena of a
\* mismatched-length request is still in the table for a later call.
C35_FailedFinalizeChangesNothing ==
    [][(/\ lastOp'.op = "FinalizeArena"
        /\ \/ lastOp'.status # "OK"
           \/ lastOp'.fd \notin DOMAIN arenas_
           \/ lastOp'.noffsets # lastOp'.nsizes)
          => /\ lastOp'.status # "OK"
             /\ UNCHANGED <<objects_, externals_, spans, arenas_, mmap_records,
                            allocated_, footprint_limit_>>]_vars

C35_Witness ==
    /\ lastOp.op = "FinalizeArena" /\ lastOp.status = "UserInputError"
    /\ lastOp.fd \in DOMAIN arenas_
    /\ lastOp.noffsets > 0 /\ lastOp.nsizes > lastOp.noffsets
    /\ \E object_id \in DOMAIN objects_ : ~Sentinel(object_id)


\* C36: a Delete that removes a blob of an arena hands to madvise every whole
\* page that lies inside the blob's own bytes [pointer, pointer + data_size)
\* and holds no byte of another registered blob.
C36_OwnPagesReleased ==
    [][(/\ lastOp'.op = "Delete" /\ lastOp'.status = "OK"
        /\ lastOp'.id \in DOMAIN objects_
        /\ objects_[lastOp'.id].arena_fd # -1)
          => LET object == objects_[lastOp'.id]
             IN \A page \in object.pointer .. (object.pointer + object.data_size) :
                  (/\ page % PageSize = 0
                   /\ page + PageSize <= object.pointer + object.data_size
                   /\ \A n \in DOMAIN objects_ \ {lastOp'.id} :
                        \/ objects_[n].pointer + objects_[n].data_size <= page
                        \/ objects_[n].pointer >= page + PageSize)
                     => \E call \in madvised' :
                          /\ call.addr <= page
                          /\ page + PageSize <= call.addr + call.length]_vars


\* ------------------------------------------------ codec claims, continued
\* C37: no two message shapes share a type tag: a Read function called on
\* the record the Write function of another shape produced returns an error
\* (a request decoder never accepts a reply, and a reply decoder never
\* accepts a request).
C37_NoSharedTag ==
    (/\ lastOp.op = "Read" /\ ~lastOp.forged
     /\ "type" \in DOMAIN lastOp.msg
     /\ ReaderRow(lastOp.reader).shape # WriterRow(lastOp.writer).shape)
       => ~ok(lastOp.status)


\* the requests: the shapes with a Read function that asserts the tag, and
\* the exit request, which has no Read function; the enumerator a request is
\* named after
RequestShapes ==
    {ReadTable[i].shape : i \in {j \in DOMAIN ReadTable :
                                    ReadTable[j].check = "RETURN_ON_ASSERT"}}
       \cup {"ExitRequest"}

RequestWriters == {WriteTable[i].name : i \in {j \in DOMAIN WriteTable :
                                                 WriteTable[j].shape \in RequestShapes}}

OwnCommand(shape) ==
    IF shape = "DebugRequest" THEN CommandType.DebugCommand ELSE CommandType[shape]

\* C38: ParseCommandType maps the tag every request encoder writes to the
\* enumerator of that request and never to NullCommand, maps the tags of two
\* requests of different shapes to different enumerators, and maps every
\* string that is not among the tags it compares with to NullCommand.
C38_ParseCommandType ==
    lastOp.op = "Parse" =>
       /\ (lastOp.tagged /\ lastOp.writer \in RequestWriters) =>
             /\ lastOp.command = OwnCommand(WriterRow(lastOp.writer).shape)
             /\ lastOp.command # CommandType.NullCommand
             /\ \A w \in RequestWriters :
                   WriterRow(w).shape # WriterRow(lastOp.writer).shape
                      => ParseCommandType(WriterRow(w).tag) # lastOp.command
       /\ (\A i \in DOMAIN CommandTags : CommandTags[i][1] # lastOp.str_type)
             => lastOp.command = CommandType.NullCommand

C38_Witness ==
    /\ lastOp.op = "Parse" /\ lastOp.tagged
    /\ lastOp.writer = "DebugRequest" /\ lastOp.str_type = "debug_command"
    /\ lastOp.command = CommandType.DebugCommand


====
